---- MODULE Spec2Model ----
(***************************************************************************)
(* ConverseAgent: the agent turn-execution loop (BaseAgent.invoke and      *)
(* BaseAgent.ainvoke), the Bedrock model adapter's response parsing, the   *)
(* assistant message's tag extraction and the tool dispatch, sequential     *)
(* and concurrent.                                                          *)
(*                                                                         *)
(* Text is a sequence of tokens (strings); a tag such as <final_response>  *)
(* is one token.  An optional value (Python's None or a value) is a        *)
(* sequence of length at most one.                                          *)
(***************************************************************************)
EXTENDS Naturals, Sequences, FiniteSets, TLC

\* ------------------------------------------------------------------ bounds

\* Largest max_iterations argument a caller passes to invoke/ainvoke.
MaxIter == 2

\* Model calls the agent may issue over the whole session (all turns).
MaxCalls == 3

\* Largest max_retries a function is wrapped with.
MaxRetries == 4

\* Calls of save_memory/load_memory made on one memory store.
MaxStoreCalls == 4

\* Logs appended to one invocation history.
MaxLogs == 2

\* Messages of a list handed to the retention filter.
MaxMessages == 2

\* Successive applications of the retention filter to one list.
MaxPasses == 2

\* Tool registrations and request constructions made on one agent.
MaxToolOps == 3

\* Calls made on one BaseMemory.
MaxMemoryOps == 4

\* Tasks created on one event loop.
MaxTasks == 4

\* Agents constructed on one memory store, and turns they take in all.
MaxAgents == 2
MaxTurns == 3

\* ------------------------------------------------------------- option type

None == <<>>

Some(v) == <<v>>

\* Python truthiness of an Optional[str]: None and "" are falsy.
Truthy(opt) == opt # None /\ opt[1] # <<>>

\* ----------------------------------------------------------- content blocks

TextContentBlock(text) == [type |-> "text", text |-> text]

ToolUseContentBlock(tool_use_id, tool_name) ==
    [type |-> "tool_use", tool_use_id |-> tool_use_id, tool_name |-> tool_name]

ToolResultContentBlock(tool_use_id, tool_result_content) ==
    [type |-> "tool_result", tool_use_id |-> tool_use_id,
     tool_result_content |-> tool_result_content]

\* ---------------------------------------------------------- tool responses

TextToolResponse(status, text) ==
    [status |-> status, type |-> "content", content |-> <<TextContentBlock(text)>>]

NotFoundToolResponse == TextToolResponse("ERROR", <<"Error: Tool not found.">>)

\* ------------------------------------------------------------- tag parsing

OpenTag(tag_name) ==
    CASE tag_name = "final_response" -> "<final_response>"
      [] tag_name = "update_message" -> "<update_message>"
      [] tag_name = "current_plan" -> "<current_plan>"
      [] OTHER -> "<thinking>"

CloseTag(tag_name) ==
    CASE tag_name = "final_response" -> "</final_response>"
      [] tag_name = "update_message" -> "</update_message>"
      [] tag_name = "current_plan" -> "</current_plan>"
      [] OTHER -> "</thinking>"

\* Index of the first occurrence of token t in s at or after position p, or 0.
FirstAt(s, t, p) ==
    IF \E i \in p..Len(s) : s[i] = t
    THEN CHOOSE i \in p..Len(s) : s[i] = t /\ \A j \in p..(i - 1) : s[j] # t
    ELSE 0

RECURSIVE lstrip(_)
lstrip(s) == IF s # <<>> /\ Head(s) = " " THEN lstrip(Tail(s)) ELSE s

RECURSIVE rstrip(_)
rstrip(s) ==
    IF s # <<>> /\ s[Len(s)] = " " THEN rstrip(SubSeq(s, 1, Len(s) - 1)) ELSE s

strip(s) == rstrip(lstrip(s))

\* re.search("<tag>(.*?)</tag>", text, DOTALL): the first opening tag that a
\* closing tag follows, up to the first closing tag after it; stripped.
extract_xml_content(text, tag_name) ==
    LET o == FirstAt(text, OpenTag(tag_name), 1)
        c == IF o = 0 THEN 0 ELSE FirstAt(text, CloseTag(tag_name), o + 1)
    IN  IF o = 0 \/ c = 0 THEN None ELSE Some(strip(SubSeq(text, o + 1, c - 1)))

\* ----------------------------------------------------------------- messages

\* UserMessage(text=...): one text block; UserMessage(): no content.
UserMessage(text) ==
    [role |-> "user",
     content |-> IF Truthy(text) THEN <<TextContentBlock(text[1])>> ELSE <<>>,
     text |-> text]

UserMessageOf(content) == [role |-> "user", content |-> content, text |-> None]

\* One wire block of the raw Converse message parsed by model_post_init.
RECURSIVE PostInit(_, _)
PostInit(raw, msg) ==
    IF raw = <<>> THEN msg
    ELSE LET block == Head(raw)
             withText ==
                 IF "text" \in DOMAIN block
                 THEN [msg EXCEPT
                         !.content = Append(@, TextContentBlock(block.text)),
                         !.text = Some(block.text),
                         !.final_response =
                             extract_xml_content(block.text, "final_response"),
                         !.update_message =
                             extract_xml_content(block.text, "update_message")]
                 ELSE msg
             withTool ==
                 IF "toolUse" \in DOMAIN block
                 THEN [withText EXCEPT
                         !.content = Append(@, ToolUseContentBlock(
                                          block.toolUse.toolUseId, block.toolUse.name))]
                 ELSE withText
         IN  PostInit(Tail(raw), withTool)

\* AssistantMessage(message=..., content=...): the derived fields are filled
\* only from the raw message; with message left empty they stay None.
AssistantMessage(message, content) ==
    LET fresh == [role |-> "assistant", content |-> content, text |-> None,
                  final_response |-> None, update_message |-> None]
    IN  IF message # <<>> THEN PostInit(message, fresh) ELSE fresh

\* -------------------------------------------------------------- model adapter

StopReason ==
    {"tool_use", "end_turn", "max_tokens", "stop_sequence",
     "guardrail_intervened", "content_filtered"}

RECURSIVE ParseContent(_)
ParseContent(raw) ==
    IF raw = <<>> THEN <<>>
    ELSE LET block == Head(raw)
             t == IF "text" \in DOMAIN block
                  THEN <<TextContentBlock(block.text)>> ELSE <<>>
             u == IF "toolUse" \in DOMAIN block
                  THEN <<ToolUseContentBlock(block.toolUse.toolUseId,
                                             block.toolUse.name)>>
                  ELSE <<>>
         IN  t \o u \o ParseContent(Tail(raw))

\* BedrockModel._parse_model_response: the content blocks are built here and
\* handed to AssistantMessage(content=content); no raw message is passed.
_parse_model_response(response) ==
    [assistant_message |->
         AssistantMessage(<<>>, ParseContent(response.output)),
     input_tokens |-> response.usage.inputTokens,
     output_tokens |-> response.usage.outputTokens,
     total_tokens |-> response.usage.totalTokens,
     stop_reason |-> response.stopReason]

\* ------------------------------------------------------- invocation history

\* BaseInvocationLog(response=model_response): parse_response copies the
\* output message, the token counts and the extracted final response.
BaseInvocationLog(response) ==
    [stop_reason |-> response.stop_reason,
     output_message |-> response.assistant_message,
     input_tokens |-> response.input_tokens,
     output_tokens |-> response.output_tokens,
     total_tokens |-> response.total_tokens,
     final_response |-> response.assistant_message.final_response]

\* _update_invocation_log logging only the responses a turn can go on from:
\* a response that ends the turn with an error leaves no log.
_update_invocation_log_unless_error(history, response) ==
    IF response.stop_reason \in {"max_tokens", "content_filtered"}
    THEN history
    ELSE Append(history, BaseInvocationLog(response))

\* BaseAgent._update_invocation_log: one log is appended to the history.
_update_invocation_log(history, response) ==
    Append(history, BaseInvocationLog(response))

\* The accumulation written with = in place of +=: the counts of the last log.
RECURSIVE SumTokens_assigning(_, _, _)
SumTokens_assigning(history, total_input_tokens, total_output_tokens) ==
    IF history = <<>>
    THEN [total_input_tokens |-> total_input_tokens,
          total_output_tokens |-> total_output_tokens,
          total_tokens |-> total_input_tokens + total_output_tokens]
    ELSE SumTokens_assigning(Tail(history), Head(history).input_tokens,
                             Head(history).output_tokens)

\* BaseInvocationHistory.get_cumulative_token_count: the loop over the
\* history adds up input_tokens and output_tokens; total_tokens is their sum.
RECURSIVE SumTokens(_, _, _)
SumTokens(history, total_input_tokens, total_output_tokens) ==
    IF history = <<>>
    THEN [total_input_tokens |-> total_input_tokens,
          total_output_tokens |-> total_output_tokens,
          total_tokens |-> total_input_tokens + total_output_tokens]
    ELSE SumTokens(Tail(history),
                   total_input_tokens + Head(history).input_tokens,
                   total_output_tokens + Head(history).output_tokens)

get_cumulative_token_count(history) == SumTokens(history, 0, 0)

\* -------------------------------------------------------------- memory store

\* BaseMemoryStore.memory_index when the store is created.
EmptyIndex == [id \in {} |-> <<>>]

\* save_memory as memory_index.setdefault(session_id, memory): a session id
\* already in the index keeps its memory.
save_memory_setdefault(index, session_id, mem) ==
    [id \in DOMAIN index \cup {session_id} |->
        IF id \in DOMAIN index THEN index[id] ELSE mem]

\* BaseMemoryStore.save_memory: memory_index.update({session_id: memory})
save_memory(index, session_id, mem) ==
    [id \in DOMAIN index \cup {session_id} |->
        IF id = session_id THEN mem ELSE index[id]]

\* BaseMemoryStore.load_memory: the stored memory, or KeyError.
load_memory(index, session_id) ==
    IF session_id \in DOMAIN index
    THEN [raised |-> "none", memory |-> index[session_id]]
    ELSE [raised |-> "KeyError"]

\* ------------------------------------------------- the transport's replies

WireText(text) == [text |-> text]

WireToolUse(id, name) == [toolUse |-> [toolUseId |-> id, name |-> name]]

\* response["usage"] of the Converse API
Usage(input_tokens, output_tokens) ==
    [inputTokens |-> input_tokens, outputTokens |-> output_tokens,
     totalTokens |-> input_tokens + output_tokens]

TextPlain == <<"Hello!">>

TextFinal == <<"<final_response>", " ", "Hello!", "</final_response>">>

TransportResponses ==
    { [stopReason |-> "end_turn", usage |-> Usage(10, 5),
       output |-> <<WireText(TextFinal)>>],
      [stopReason |-> "end_turn", usage |-> Usage(10, 5),
       output |-> <<WireText(TextPlain)>>],
      [stopReason |-> "tool_use", usage |-> Usage(20, 7),
       output |-> <<WireText(TextPlain), WireToolUse("a1", "calc")>>],
      [stopReason |-> "tool_use", usage |-> Usage(20, 7),
       output |-> <<WireToolUse("a1", "calc"), WireToolUse("a2", "search")>>],
      [stopReason |-> "tool_use", usage |-> Usage(20, 7),
       output |-> <<WireToolUse("a1", "boom"), WireToolUse("a2", "calc")>>],
      [stopReason |-> "tool_use", usage |-> Usage(20, 7),
       output |-> <<WireToolUse("a1", "calc"), WireToolUse("a2", "fetch")>>],
      [stopReason |-> "tool_use", usage |-> Usage(20, 7),
       output |-> <<WireToolUse("a1", "search"), WireToolUse("a2", "calc"),
                    WireToolUse("a3", "boom")>>],
      [stopReason |-> "max_tokens", usage |-> Usage(10, 5),
       output |-> <<WireText(TextPlain)>>],
      [stopReason |-> "stop_sequence", usage |-> Usage(10, 5),
       output |-> <<WireText(TextPlain)>>],
      [stopReason |-> "guardrail_intervened", usage |-> Usage(10, 5),
       output |-> <<WireText(TextPlain)>>],
      [stopReason |-> "content_filtered", usage |-> Usage(10, 5),
       output |-> <<WireText(TextPlain)>>] }

\* --------------------------------------------------------------------- tools

\* The agent's tool list.  Each tool has a fixed behaviour: it returns a
\* SUCCESS response, returns an ERROR response, or raises.  The second
\* "calc" is shadowed by the first.
AgentTools ==
    << [name |-> "calc", behaviour |-> "ok"],
       [name |-> "fetch", behaviour |-> "error"],
       [name |-> "boom", behaviour |-> "raise"],
       [name |-> "calc", behaviour |-> "raise"] >>

\* tool.invoke(**tool_input) / tool.ainvoke(**tool_input)
ToolInvoke(tool) ==
    CASE tool.behaviour = "ok" ->
             [raised |-> FALSE,
              response |-> TextToolResponse("SUCCESS", <<"result of ", tool.name>>)]
      [] tool.behaviour = "error" ->
             [raised |-> FALSE,
              response |-> TextToolResponse("ERROR", <<"failed: ", tool.name>>)]
      [] OTHER ->
             [raised |-> TRUE, e |-> tool.name]

\* The search for the tool without the break: the last tool with the name.
FirstMatch_last(tool_list, tool_name) ==
    IF \E i \in 1..Len(tool_list) : tool_list[i].name = tool_name
    THEN CHOOSE i \in 1..Len(tool_list) :
             /\ tool_list[i].name = tool_name
             /\ \A j \in (i + 1)..Len(tool_list) : tool_list[j].name # tool_name
    ELSE 0

\* for tool in self.tools: if tool_name == tool.name: ... break
FirstMatch(tool_list, tool_name) ==
    IF \E i \in 1..Len(tool_list) : tool_list[i].name = tool_name
    THEN CHOOSE i \in 1..Len(tool_list) :
             /\ tool_list[i].name = tool_name
             /\ \A j \in 1..(i - 1) : tool_list[j].name # tool_name
    ELSE 0

\* ------------------------------------------------------------------- state

VARIABLES
    tools,                       \* BaseAgent.tools
    return_final_response_only,  \* BaseAgent.return_final_response_only
    requests_per_minute_limit,   \* BaseAgent.requests_per_minute_limit
    memory,                      \* BaseAgent.memory.memory
    memory_index,                \* BaseAgent.memory_store.memory_index
    invocation_history,          \* BaseAgent.invocation_history.history
    pc,                          \* position of the running invoke/ainvoke
    mode,                        \* "sync" (invoke) or "async" (ainvoke)
    max_iterations,              \* argument of the running call
    update_callback,             \* BaseAgent.update_callback, set by each call
    callback_log,                \* what the callback was called with, in order
    current_iteration,           \* local of invoke/ainvoke
    model_response,              \* local of invoke/ainvoke
    stop_result,                 \* local of invoke/ainvoke
    exception,                   \* what the call raised, "none" while it has not
    sleep_log,                   \* delays slept by the running call, milliseconds
    adapter_raised,              \* what the last model.invoke raised, or "none"
    block_idx,                   \* position of the tool dispatch in the content
    tool_result_message,         \* content of the UserMessage being built
    tasks,                       \* _ahandle_tool_use's task list
    dispatch_log,                \* tool invocations made in the current iteration
    model_calls,                 \* model calls issued by the running call
    calls_total,                 \* model calls issued over the session
    wrapped,                     \* with_exponential_backoff: arguments and func
    retry_pc,                    \* position of the running wrapper call
    attempt,                     \* wrapper local: the loop variable
    last_exception,              \* wrapper local
    call_log,                    \* what each call of func met, in order
    backoff_sleeps,              \* total_delay of each time.sleep, milliseconds
    retry_outcome,               \* what the wrapper returned or raised
    store_log,                   \* the save_memory/load_memory calls made, in order
    token_count,                 \* what the last get_cumulative_token_count returned
    retention_input,             \* the list the retention filter is first given
    retention_passes,            \* what each successive application returned
    system_message,              \* BaseAgent.system_message.content
    tool_ops,                    \* registrations made and requests built, in order
    base_memory,                 \* BaseMemory.memory of a memory used on its own
    memory_ops,                  \* the calls made on that memory, in order
    loop_tasks,                  \* the tasks of one fan-out on the event loop
    running,                     \* the task the event loop's thread is executing
    agents,                      \* agents constructed on one shared memory store
    store_index,                 \* memory_index of that store: id to memory object
    heap,                        \* the BaseMemory objects: their message lists
    request_log                  \* messages of each ModelRequest built, in order

\* The retry wrapper's state.
retry_vars == <<wrapped, retry_pc, attempt, last_exception, call_log,
                backoff_sleeps, retry_outcome>>

\* The retention filter's argument and results.
retention_vars == <<retention_input, retention_passes>>

\* The agent's own system message and the record of its tool registrations.
registration_vars == <<system_message, tool_ops>>

\* A BaseMemory used on its own.
memory_vars == <<base_memory, memory_ops>>

\* The event loop running the tasks of a fan-out.
scheduler_vars == <<loop_tasks, running>>

\* Several agents on one memory store.
session_vars == <<agents, store_index, heap>>

standalone_vars == <<memory_vars, scheduler_vars, session_vars, request_log>>

\* State of the components exercised on their own, which the agent loop of
\* this model does not touch.
component_vars == <<retry_vars, store_log, token_count, retention_vars,
                    registration_vars, standalone_vars>>

\* The agent's configuration, which no step of the loop changes.
agent_vars == <<tools, return_final_response_only, requests_per_minute_limit>>

turn_vars == <<mode, max_iterations, update_callback, callback_log>>

dispatch_vars == <<block_idx, tool_result_message, tasks, dispatch_log>>

vars == <<tools, return_final_response_only, requests_per_minute_limit, memory,
          memory_index, invocation_history, pc, mode,
          max_iterations, update_callback, callback_log, current_iteration, model_response, stop_result,
          exception, sleep_log, adapter_raised, block_idx, tool_result_message,
          tasks, dispatch_log, model_calls, calls_total, wrapped, retry_pc,
          attempt, last_exception, call_log, backoff_sleeps, retry_outcome,
          store_log, token_count, retention_input, retention_passes,
          system_message, tool_ops, base_memory, memory_ops, loop_tasks,
          running, agents, store_index, heap, request_log>>

\* Everything of the agent but its memory store and invocation history.
loop_vars == <<agent_vars, turn_vars, dispatch_vars, memory, pc,
               current_iteration, model_response, stop_result, exception,
               sleep_log, adapter_raised, model_calls, calls_total>>

Unbound == [status |-> "unbound"]

NoResponse == [stop_reason |-> "none",
               assistant_message |-> AssistantMessage(<<>>, <<>>)]

\* BaseAgent.session_id
SessionId == "session"

\* The agent after construction, its two configuration fields drawn from the
\* given sets.  model_post_init finds no memory under the session id in a new
\* store and keeps the fresh BaseMemory.
AgentInit(rfos, limits) ==
    /\ tools = AgentTools
    /\ return_final_response_only \in rfos
    /\ requests_per_minute_limit \in limits
    /\ memory = <<>>
    /\ memory_index = EmptyIndex
    /\ sleep_log = <<>>
    /\ invocation_history = <<>>
    /\ pc = "idle"
    /\ mode = "sync"
    /\ max_iterations = 1
    /\ update_callback = None
    /\ callback_log = <<>>
    /\ current_iteration = 0
    /\ model_response = NoResponse
    /\ stop_result = Unbound
    /\ exception = "none"
    /\ adapter_raised = "none"
    /\ block_idx = 1
    /\ tool_result_message = <<>>
    /\ tasks = <<>>
    /\ dispatch_log = <<>>
    /\ model_calls = 0
    /\ calls_total = 0

\* with_exponential_backoff(): the default arguments, delays in milliseconds
\* and the jitter factor in percent.
DefaultBackoff(func) ==
    [func |-> func, retryable_exceptions |-> {"Exception"}, max_retries |-> 3,
     base_delay |-> 1000, max_delay |-> 30000, jitter_factor |-> 10]

\* No wrapped function is running.
RetryIdle(functions) ==
    /\ wrapped \in functions
    /\ retry_pc = "idle"
    /\ attempt = 0
    /\ last_exception = None
    /\ call_log = <<>>
    /\ backoff_sleeps = <<>>
    /\ retry_outcome = [kind |-> "none"]

\* No call has been made on the memory store from outside the agent.
StoreIdle == store_log = <<>>

\* get_cumulative_token_count has not been called.
TokensIdle == token_count = [logs |-> 0, raised |-> "none"]

\* The retention filter has not been applied.
RetentionIdle(lists) == retention_input \in lists /\ retention_passes = <<>>

\* base_prompts.DEFAULT_SYSTEM_MESSAGE: one text block holding the template.
DEFAULT_SYSTEM_MESSAGE ==
    <<TextContentBlock(<<"DEFAULT_SYSTEM_PROMPT_TEMPLATE">>)>>

\* The system_message field defaults to DEFAULT_SYSTEM_MESSAGE; the default of
\* a field is deep-copied into each instance, so the agent starts with a
\* message of its own that is equal to the module-level one.
RegistrationIdle == system_message = DEFAULT_SYSTEM_MESSAGE /\ tool_ops = <<>>

\* A BaseMemory as created: no messages.
MemoryIdle == base_memory = <<>> /\ memory_ops = <<>>

\* The tasks the event loop is given; its thread is free.
SchedulerIdle(fanouts) == loop_tasks \in fanouts /\ running = 0

\* A memory store as created, no agent constructed on it yet.
SessionsIdle == agents = <<>> /\ store_index = EmptyIndex /\ heap = <<>>

StandaloneIdle ==
    MemoryIdle /\ SchedulerIdle({<<>>}) /\ SessionsIdle /\ request_log = <<>>

ComponentsIdle ==
    /\ RetryIdle({DefaultBackoff("_invoke")}) /\ StoreIdle /\ TokensIdle
    /\ RetentionIdle({<<>>}) /\ RegistrationIdle /\ StandaloneIdle

\* requests_per_minute_limit defaults to None.
Init == AgentInit(BOOLEAN, {None}) /\ ComponentsIdle

\* ------------------------------------------------------------ invoke/ainvoke

\* The user_message argument of invoke/ainvoke.
CallerMessage == UserMessage(Some(<<"Hi">>))

\* _append_memory putting the caller's message in front of every assistant
\* message, as a loop that re-sends the input in each iteration would.
_append_memory_resending(mem, message) ==
    IF message.role = "assistant"
    THEN Append(Append(mem, CallerMessage), message)
    ELSE Append(mem, message)

\* BaseAgent._append_memory: the message is appended to memory ...
_append_memory(mem, message) == Append(mem, message)

\* _append_memory saving a copy of the memory taken before the append.
_save_to_store_stale(index, mem) ==
    save_memory(index, SessionId, SubSeq(mem, 1, Len(mem) - 1))

\* ... and the memory is saved to the store under the agent's session id
\* (session_id and memory_store are both truthy).
_save_to_store(index, mem) == save_memory(index, SessionId, mem)

\* invoke / ainvoke up to the loop: the callback argument is stored, the user
\* message is appended once and the iteration counter starts at 0.
StartTurn(m, n, callback) ==
    /\ pc \in {"idle", "returned", "raised"}
    /\ calls_total + n <= MaxCalls
    /\ mode' = m
    /\ max_iterations' = n
    /\ update_callback' = callback
    /\ callback_log' = <<>>
    /\ memory' = _append_memory(memory, CallerMessage)
    /\ memory_index' = _save_to_store(memory_index, memory')
    /\ sleep_log' = <<>>
    /\ current_iteration' = 0
    /\ model_response' = NoResponse
    /\ stop_result' = Unbound
    /\ exception' = "none"
    /\ adapter_raised' = "none"
    /\ block_idx' = 1
    /\ tool_result_message' = <<>>
    /\ tasks' = <<>>
    /\ dispatch_log' = <<>>
    /\ model_calls' = 0
    /\ pc' = "loop"
    /\ UNCHANGED <<component_vars, agent_vars, invocation_history, calls_total>>

\* invoke(user_message, max_iterations=n): update_callback defaults to None.
Invoke == \E n \in 1..MaxIter : StartTurn("sync", n, None)

AInvoke == \E n \in 1..MaxIter : StartTurn("async", n, None)

\* invoke / ainvoke called with an update_callback.
InvokeWithCallback ==
    \E n \in 1..MaxIter : StartTurn("sync", n, Some("callback"))

AInvokeWithCallback ==
    \E n \in 1..MaxIter : StartTurn("async", n, Some("callback"))

\* BaseAgent._post_invocation_processing / _apost_invocation_processing:
\* if self.update_callback:
\*     self.update_callback(self.get_messages()[-1].update_message)
_post_invocation_processing(callback, mem, log) ==
    IF callback # None
    THEN Append(log, mem[Len(mem)].update_message)
    ELSE log

\* The loop condition admitting the cap itself as an iteration number.
LoopConditionInclusive(iteration, cap) == iteration <= cap

\* while current_iteration < max_iterations
LoopCondition(iteration, cap) == iteration < cap

\* One pass of the loop from the model call to the post-invocation hook:
\* _invoke_model, _update_invocation_log, _append_memory,
\* _post_invocation_processing.
InvokeModel ==
    /\ pc = "loop"
    /\ LoopCondition(current_iteration, max_iterations)
    /\ \E response \in TransportResponses :
         LET parsed == _parse_model_response(response)
         IN  /\ model_response' = parsed
             /\ invocation_history' =
                    _update_invocation_log(invocation_history, parsed)
             /\ memory' = _append_memory(memory, parsed.assistant_message)
    /\ memory_index' = _save_to_store(memory_index, memory')
    /\ callback_log' =
           _post_invocation_processing(update_callback, memory', callback_log)
    /\ model_calls' = model_calls + 1
    /\ calls_total' = calls_total + 1
    /\ block_idx' = 1
    /\ tool_result_message' = <<>>
    /\ tasks' = <<>>
    /\ dispatch_log' = <<>>
    /\ adapter_raised' = "none"
    /\ pc' = "handle"
    /\ UNCHANGED <<component_vars, agent_vars, mode, max_iterations,
                   update_callback, sleep_log, current_iteration, stop_result,
                   exception>>

\* BaseAgent._handle_context_window_exceeded
_handle_context_window_exceeded ==
    [status |-> "error", body |-> [text |-> Some(<<"Input is too long for the model">>)]]

\* _invoke_model / _ainvoke_model when the adapter raises ContextWindowExceeded:
\* the handler's result is dropped and `return model_response` reads a local
\* that was never bound.
InvokeModelContextWindowExceeded ==
    /\ pc = "loop"
    /\ LoopCondition(current_iteration, max_iterations)
    /\ model_calls' = model_calls + 1
    /\ calls_total' = calls_total + 1
    /\ adapter_raised' = "ContextWindowExceeded"
    /\ exception' = "UnboundLocalError"
    /\ pc' = "raised"
    /\ UNCHANGED <<component_vars, agent_vars, turn_vars, sleep_log, memory, memory_index, invocation_history,
                   current_iteration, model_response, stop_result, dispatch_vars>>

\* The loop condition fails: `return stop_result`.
LoopExit ==
    /\ pc = "loop"
    /\ ~LoopCondition(current_iteration, max_iterations)
    /\ pc' = "returned"
    /\ UNCHANGED <<component_vars, agent_vars, turn_vars, sleep_log, adapter_raised, memory, memory_index, invocation_history,
                   current_iteration, model_response, stop_result, exception,
                   dispatch_vars, model_calls, calls_total>>

\* ------------------------------------------------------ stop reason handling

\* _handle_end_turn without the gate: a response lacking the final response
\* ends the turn with the assistant text instead of being re-prompted.
_handle_end_turn_ungated(rfo, assistant_message, cumulative_usage) ==
    [status |-> "end_turn",
     body |-> [session_id |-> SessionId,
               text |-> IF rfo /\ Truthy(assistant_message.final_response)
                        THEN assistant_message.final_response
                        ELSE assistant_message.text,
               cumulative_usage |-> cumulative_usage]]

\* BaseAgent._handle_end_turn: the returned dict.
_handle_end_turn(rfo, assistant_message, cumulative_usage) ==
    IF rfo = FALSE
    THEN [status |-> "end_turn",
          body |-> [session_id |-> SessionId, text |-> assistant_message.text,
                    cumulative_usage |-> cumulative_usage]]
    ELSE IF Truthy(assistant_message.final_response) /\ rfo
         THEN [status |-> "end_turn",
               body |-> [session_id |-> SessionId,
                         text |-> assistant_message.final_response,
                         cumulative_usage |-> cumulative_usage]]
         ELSE [status |-> "continue"]

FINAL_RESPONSE_PROMPT == <<"<final_response> tags was not found.">>

\* _handle_max_output_tokens_exceeed asking for another iteration instead of
\* ending the turn.
_handle_max_output_tokens_exceeed_continue == [status |-> "continue"]

\* BaseAgent._handle_max_output_tokens_exceeed
_handle_max_output_tokens_exceeed ==
    [status |-> "error",
     body |-> [text |-> Some(<<"Max output tokens exceeded for the model">>)]]

\* BaseAgent._handle_stop_sequence
_handle_stop_sequence(assistant_message, cumulative_usage) ==
    [status |-> "end_turn",
     body |-> [session_id |-> SessionId, text |-> assistant_message.text,
               cumulative_usage |-> cumulative_usage]]

\* BaseAgent._handle_guardrail_intervened
_handle_guardrail_intervened ==
    [status |-> "end_turn", body |-> [text |-> Some(<<"Guardrail intervened">>)]]

\* BaseAgent._handle_content_filtered
_handle_content_filtered ==
    [status |-> "error", body |-> [text |-> Some(<<"Content filtered by the model">>)]]

\* _handle_stop_reason / _ahandle_stop_reason for END_TURN: terminal result,
\* or the corrective user message and CONTINUE.
HandleEndTurn ==
    /\ pc = "handle"
    /\ model_response.stop_reason = "end_turn"
    /\ LET result == _handle_end_turn(return_final_response_only,
                                      model_response.assistant_message,
                                      get_cumulative_token_count(invocation_history))
       IN  /\ stop_result' = result
           /\ memory' = IF result.status = "continue"
                        THEN _append_memory(memory,
                                            UserMessage(Some(FINAL_RESPONSE_PROMPT)))
                        ELSE memory
    /\ memory_index' = IF memory' # memory
                       THEN _save_to_store(memory_index, memory')
                       ELSE memory_index
    /\ pc' = "tail"
    /\ UNCHANGED <<component_vars, agent_vars, turn_vars, sleep_log, adapter_raised, invocation_history, current_iteration,
                   model_response, exception, dispatch_vars, model_calls,
                   calls_total>>

\* _handle_stop_reason / _ahandle_stop_reason for the four other stop reasons.
HandleOtherStopReason ==
    /\ pc = "handle"
    /\ model_response.stop_reason \in
           {"max_tokens", "stop_sequence", "guardrail_intervened", "content_filtered"}
    /\ stop_result' =
           CASE model_response.stop_reason = "max_tokens" ->
                    _handle_max_output_tokens_exceeed
             [] model_response.stop_reason = "stop_sequence" ->
                    _handle_stop_sequence(model_response.assistant_message,
                                          get_cumulative_token_count(invocation_history))
             [] model_response.stop_reason = "guardrail_intervened" ->
                    _handle_guardrail_intervened
             [] OTHER -> _handle_content_filtered
    /\ pc' = "tail"
    /\ UNCHANGED <<component_vars, agent_vars, turn_vars, sleep_log, adapter_raised, memory, memory_index, invocation_history,
                   current_iteration, model_response, exception, dispatch_vars,
                   model_calls, calls_total>>

\* ------------------------------------------------------------- tool dispatch

\* DispatchSync with tool_found set only after a successful invoke: a raising
\* tool is answered like a missing one.
DispatchSync_raise_as_not_found(tool_list, block) ==
    LET i == FirstMatch(tool_list, block.tool_name)
    IN  IF i = 0 \/ ToolInvoke(tool_list[IF i = 0 THEN 1 ELSE i]).raised
        THEN [tool |-> i, raised |-> i # 0, tool_response |-> NotFoundToolResponse]
        ELSE [tool |-> i, raised |-> FALSE,
              tool_response |-> ToolInvoke(tool_list[i]).response]

\* _handle_tool_use, one tool-use block: the first tool with the block's name
\* is invoked, an exception it raises becomes an ERROR text response, and a
\* name no tool has gets the not-found response.
DispatchSync(tool_list, block) ==
    LET i == FirstMatch(tool_list, block.tool_name)
    IN  IF i = 0
        THEN [tool |-> 0, raised |-> FALSE, tool_response |-> NotFoundToolResponse]
        ELSE LET out == ToolInvoke(tool_list[i])
             IN  [tool |-> i, raised |-> out.raised,
                  tool_response |->
                      IF out.raised
                      THEN TextToolResponse("ERROR", <<"Error executing tool: ", out.e>>)
                      ELSE out.response]

\* The content a tool response contributes to its ToolResultContentBlock.
ToolResultContent(tool_response) == tool_response.content

Content == model_response.assistant_message.content

\* _handle_tool_use: the loop body for the block at block_idx.
HandleToolUseBlock ==
    /\ pc = "handle"
    /\ mode = "sync"
    /\ model_response.stop_reason = "tool_use"
    /\ block_idx <= Len(Content)
    /\ LET block == Content[block_idx]
       IN  IF block.type = "tool_use"
           THEN LET d == DispatchSync(tools, block)
                IN  /\ tool_result_message' =
                           Append(tool_result_message,
                                  ToolResultContentBlock(
                                      block.tool_use_id,
                                      ToolResultContent(d.tool_response)))
                    /\ dispatch_log' =
                           IF d.tool # 0
                           THEN Append(dispatch_log,
                                       [tool_use_id |-> block.tool_use_id,
                                        tool |-> d.tool, raised |-> d.raised,
                                        status |-> d.tool_response.status])
                           ELSE dispatch_log
           ELSE UNCHANGED <<tool_result_message, dispatch_log>>
    /\ block_idx' = block_idx + 1
    /\ UNCHANGED <<component_vars, agent_vars, turn_vars, sleep_log, adapter_raised, memory, memory_index, invocation_history, pc,
                   current_iteration, model_response, stop_result, exception,
                   tasks, model_calls, calls_total>>

\* _ahandle_tool_use: the loop body for the block at block_idx, up to the
\* await: a task is created for a matched tool, a not-found block is appended
\* at once for an unmatched one.  Text blocks are skipped without awaiting.
AHandleToolUseBlock ==
    /\ pc = "handle"
    /\ mode = "async"
    /\ model_response.stop_reason = "tool_use"
    /\ block_idx <= Len(Content)
    /\ LET block == Content[block_idx]
           i == FirstMatch(tools, block.tool_name)
       IN  IF block.type = "tool_use"
           THEN /\ tasks' = IF i # 0
                            THEN Append(tasks, [tool_use_id |-> block.tool_use_id,
                                                tool |-> i, state |-> "pending"])
                            ELSE tasks
                /\ tool_result_message' =
                       IF i = 0
                       THEN Append(tool_result_message,
                                   ToolResultContentBlock(
                                       block.tool_use_id,
                                       <<TextContentBlock(
                                           <<"Tool ", block.tool_name, " not found">>)>>))
                       ELSE tool_result_message
                /\ pc' = "gather"
                /\ UNCHANGED block_idx
           ELSE /\ block_idx' = block_idx + 1
                /\ UNCHANGED <<tasks, tool_result_message, pc>>
    /\ UNCHANGED <<component_vars, agent_vars, turn_vars, sleep_log, adapter_raised, memory, memory_index, invocation_history,
                   current_iteration, model_response, stop_result, exception,
                   dispatch_log, model_calls, calls_total>>

\* ainvoke_tool: a created task runs tool.ainvoke while the handler awaits.
RunTask ==
    /\ pc = "gather"
    /\ \E k \in 1..Len(tasks) :
         /\ tasks[k].state = "pending"
         /\ LET out == ToolInvoke(tools[tasks[k].tool])
            IN  /\ tasks' = [tasks EXCEPT ![k] =
                                IF out.raised
                                THEN [@ EXCEPT !.state = "raised"]
                                ELSE [tool_use_id |-> @.tool_use_id, tool |-> @.tool,
                                      state |-> "done",
                                      tool_response |-> out.response]]
                /\ dispatch_log' =
                       Append(dispatch_log,
                              [tool_use_id |-> tasks[k].tool_use_id,
                               tool |-> tasks[k].tool, raised |-> out.raised,
                               status |-> IF out.raised THEN "none"
                                          ELSE out.response.status])
    /\ UNCHANGED <<component_vars, agent_vars, turn_vars, sleep_log, adapter_raised, memory, memory_index, invocation_history, pc,
                   current_iteration, model_response, stop_result, exception,
                   block_idx, tool_result_message, model_calls, calls_total>>

RECURSIVE TaskResultBlocks(_)
TaskResultBlocks(ts) ==
    IF ts = <<>> THEN <<>>
    ELSE <<ToolResultContentBlock(Head(ts).tool_use_id,
                                  ToolResultContent(Head(ts).tool_response))>>
         \o TaskResultBlocks(Tail(ts))

\* task_results = await asyncio.gather(*tasks), then one result block per
\* task of the list; this runs inside the loop body of every tool-use block.
Gather ==
    /\ pc = "gather"
    /\ \A k \in 1..Len(tasks) : tasks[k].state = "done"
    /\ tool_result_message' = tool_result_message \o TaskResultBlocks(tasks)
    /\ block_idx' = block_idx + 1
    /\ pc' = "handle"
    /\ UNCHANGED <<component_vars, agent_vars, turn_vars, sleep_log, adapter_raised, memory, memory_index, invocation_history,
                   current_iteration, model_response, stop_result, exception,
                   tasks, dispatch_log, model_calls, calls_total>>

\* GatherRaises as gather(*tasks, return_exceptions=True) would behave: the
\* exception of a task is swallowed and the dispatch goes on with the result
\* blocks of the tasks that completed.
GatherRaises_swallowed ==
    /\ pc = "gather"
    /\ \E k \in 1..Len(tasks) : tasks[k].state = "raised"
    /\ tool_result_message' =
           tool_result_message
           \o TaskResultBlocks(SelectSeq(tasks, LAMBDA t : t.state = "done"))
    /\ block_idx' = block_idx + 1
    /\ pc' = "handle"
    /\ UNCHANGED <<component_vars, agent_vars, turn_vars, sleep_log, adapter_raised, memory,
                   memory_index, invocation_history, current_iteration,
                   model_response, stop_result, exception, tasks, dispatch_log,
                   model_calls, calls_total>>

\* asyncio.gather re-raises the first exception of a task; nothing in
\* _ahandle_tool_use or ainvoke catches it.
GatherRaises ==
    /\ pc = "gather"
    /\ \E k \in 1..Len(tasks) : tasks[k].state = "raised"
    /\ exception' = "ToolError"
    /\ pc' = "raised"
    /\ UNCHANGED <<component_vars, agent_vars, turn_vars, sleep_log, adapter_raised, memory, memory_index, invocation_history,
                   current_iteration, model_response, stop_result, dispatch_vars,
                   model_calls, calls_total>>

\* FinishToolUse leaving the loop over the content after its first block,
\* with whatever results have been collected by then.
FinishToolUse_after_first_block ==
    /\ pc = "handle"
    /\ model_response.stop_reason = "tool_use"
    /\ block_idx > 1
    /\ memory' = _append_memory(memory, UserMessageOf(tool_result_message))
    /\ memory_index' = _save_to_store(memory_index, memory')
    /\ stop_result' = [status |-> "continue"]
    /\ pc' = "tail"
    /\ UNCHANGED <<component_vars, agent_vars, turn_vars, sleep_log, adapter_raised,
                   invocation_history, current_iteration, model_response,
                   exception, dispatch_vars, model_calls, calls_total>>

\* _handle_tool_use / _ahandle_tool_use after the loop over the content: the
\* tool-result message is appended to memory and the result is CONTINUE.
FinishToolUse ==
    /\ pc = "handle"
    /\ model_response.stop_reason = "tool_use"
    /\ block_idx > Len(Content)
    /\ memory' = _append_memory(memory, UserMessageOf(tool_result_message))
    /\ memory_index' = _save_to_store(memory_index, memory')
    /\ stop_result' = [status |-> "continue"]
    /\ pc' = "tail"
    /\ UNCHANGED <<component_vars, agent_vars, turn_vars, sleep_log, adapter_raised, invocation_history, current_iteration,
                   model_response, exception, dispatch_vars, model_calls,
                   calls_total>>

\* ------------------------------------------------------- end of an iteration

\* invoke/ainvoke after the handler: END_TURN and any status other than
\* CONTINUE break out of the loop and the result is returned.
IterationBreaks ==
    /\ pc = "tail"
    /\ stop_result.status # "continue"
    /\ pc' = "returned"
    /\ UNCHANGED <<component_vars, agent_vars, turn_vars, sleep_log, adapter_raised, memory, memory_index, invocation_history,
                   current_iteration, model_response, stop_result, exception,
                   dispatch_vars, model_calls, calls_total>>

\* if current_iteration > max_iterations, after the increment
CapExceeded(iteration, cap) == iteration > cap

\* _handle_completed_iteration reading the limit as requests per second:
\* sleep(1 / self.requests_per_minute_limit).
_handle_completed_iteration_per_second(limit, log) ==
    IF limit # None /\ limit[1] # 0
    THEN Append(log, 1000 \div limit[1])
    ELSE log

\* BaseAgent._handle_completed_iteration / _ahandle_completed_iteration:
\* if self.requests_per_minute_limit: sleep(60 / self.requests_per_minute_limit)
_handle_completed_iteration(limit, log) ==
    IF limit # None /\ limit[1] # 0
    THEN Append(log, (60 * 1000) \div limit[1])
    ELSE log

\* invoke/ainvoke after the handler, status CONTINUE: the rate-limit delay is
\* slept, then the counter is incremented and compared with the cap.  invoke only names
\* self._handle_max_iterations_exceeded without calling it; ainvoke calls it.
IterationContinues ==
    /\ pc = "tail"
    /\ stop_result.status = "continue"
    /\ sleep_log' = _handle_completed_iteration(requests_per_minute_limit, sleep_log)
    /\ current_iteration' = current_iteration + 1
    /\ IF CapExceeded(current_iteration + 1, max_iterations) /\ mode = "async"
       THEN /\ exception' = "MaxIterationsExceeded"
            /\ pc' = "raised"
       ELSE /\ pc' = "loop"
            /\ UNCHANGED exception
    /\ UNCHANGED <<component_vars, agent_vars, turn_vars, adapter_raised, memory, memory_index, invocation_history,
                   model_response, stop_result, dispatch_vars, model_calls,
                   calls_total>>

Next ==
    \/ Invoke
    \/ AInvoke
    \/ InvokeModel
    \/ InvokeModelContextWindowExceeded
    \/ LoopExit
    \/ HandleEndTurn
    \/ HandleOtherStopReason
    \/ HandleToolUseBlock
    \/ AHandleToolUseBlock
    \/ RunTask
    \/ Gather
    \/ GatherRaises
    \/ FinishToolUse
    \/ IterationBreaks
    \/ IterationContinues

Spec == Init /\ [][Next]_vars

\* The steps of a call that is under way: every model call, tool call and
\* hook returns, so the call goes on until it returns or raises.
TurnStep ==
    \/ InvokeModel
    \/ InvokeModelContextWindowExceeded
    \/ LoopExit
    \/ HandleEndTurn
    \/ HandleOtherStopReason
    \/ HandleToolUseBlock
    \/ AHandleToolUseBlock
    \/ RunTask
    \/ Gather
    \/ GatherRaises
    \/ FinishToolUse
    \/ IterationBreaks
    \/ IterationContinues

SpecTurnsProceed == Spec /\ WF_vars(TurnStep)

\* Values of requests_per_minute_limit: none, or 30 requests per minute.
RateLimits == {None, Some(30)}

\* The same loop on an agent built with or without a rate limit.
InitRate == AgentInit({TRUE}, RateLimits) /\ ComponentsIdle

SpecRate == InitRate /\ [][Next]_vars

\* The same loop with every call handing in an update callback.
NextCallback ==
    \/ InvokeWithCallback
    \/ AInvokeWithCallback
    \/ InvokeModel
    \/ InvokeModelContextWindowExceeded
    \/ LoopExit
    \/ HandleEndTurn
    \/ HandleOtherStopReason
    \/ HandleToolUseBlock
    \/ AHandleToolUseBlock
    \/ RunTask
    \/ Gather
    \/ GatherRaises
    \/ FinishToolUse
    \/ IterationBreaks
    \/ IterationContinues

SpecCallback == Init /\ [][NextCallback]_vars

\* ------------------------------------------------------------ retry utility

ClientError(code, message) ==
    [class |-> "ClientError", code |-> code, message |-> message]

\* What one call of client.converse meets: a reply, a ClientError of the
\* service, or another exception of the transport.
TransportOutcomes ==
    { [kind |-> "return", value |-> "response"],
      [kind |-> "raise",
       e |-> ClientError("ValidationException",
                         <<"Input is too long", " for requested model.">>)],
      [kind |-> "raise",
       e |-> ClientError("ValidationException", <<"Malformed input request">>)],
      [kind |-> "raise",
       e |-> ClientError("ThrottlingException", <<"Too many requests">>)],
      [kind |-> "raise", e |-> [class |-> "ReadTimeoutError"]] }

\* "Input is too long" in error_message
Contains(message, part) == \E k \in 1..Len(message) : message[k] = part

\* BedrockModel._invoke, the decorated function: the transport's reply is
\* returned; a ValidationException saying the input is too long becomes
\* ContextWindowExceeded; any other ValidationException leaves the except
\* clause without raising and `return response` reads an unbound local; every
\* other exception is raised again.
_invoke(transport) ==
    IF transport.kind = "return"
    THEN transport
    ELSE IF transport.e.class = "ClientError"
         THEN IF transport.e.code = "ValidationException"
              THEN IF Contains(transport.e.message, "Input is too long")
                   THEN [kind |-> "raise", e |-> [class |-> "ContextWindowExceeded"]]
                   ELSE [kind |-> "raise", e |-> [class |-> "UnboundLocalError"]]
              ELSE [kind |-> "raise", e |-> transport.e]
         ELSE [kind |-> "raise", e |-> transport.e]

\* What one call of a wrapped function other than _invoke does.
FuncOutcomes ==
    { [kind |-> "return", value |-> "value"],
      [kind |-> "raise", e |-> [class |-> "ConnectionError"]],
      [kind |-> "raise", e |-> [class |-> "TimeoutError"]],
      [kind |-> "raise", e |-> [class |-> "ValueError"]] }

\* The decorated functions: BedrockModel._invoke under the default arguments,
\* and a function retried on ConnectionError and TimeoutError only.
WrappedFunctions ==
    {DefaultBackoff("_invoke")}
    \cup { [func |-> "func",
             retryable_exceptions |-> {"ConnectionError", "TimeoutError"},
             max_retries |-> m, base_delay |-> 1000, max_delay |-> 3000,
             jitter_factor |-> 10] : m \in 0..MaxRetries }

\* What a call of the wrapped function may meet.
CallInputs(func) == IF func = "_invoke" THEN TransportOutcomes ELSE FuncOutcomes

\* func(*args, **kwargs)
CallWrapped(func, input) == IF func = "_invoke" THEN _invoke(input) ELSE input

\* The except clause as a bare `except Exception`, whatever the argument.
IsInstance_of_Exception(e, classes) == TRUE

\* except retryable_exceptions as e: every exception here is an Exception.
IsInstance(e, classes) == "Exception" \in classes \/ e.class \in classes

RECURSIVE Pow2(_)
Pow2(n) == IF n = 0 THEN 1 ELSE 2 * Pow2(n - 1)

Min(a, b) == IF a <= b THEN a ELSE b

\* The backoff without its cap: delay = base_delay * (2**attempt).
BackoffDelay_uncapped(cfg, n) == cfg.base_delay * Pow2(n)

\* delay = min(max_delay, base_delay * (2**attempt))
BackoffDelay(cfg, n) == Min(cfg.max_delay, cfg.base_delay * Pow2(n))

\* jitter = random.uniform(0, jitter_factor * delay): the two ends of the
\* range and its middle.
Jitters(cfg, delay) ==
    {0, ((cfg.jitter_factor * delay) \div 100) \div 2,
     (cfg.jitter_factor * delay) \div 100}

not_retry_vars == <<loop_vars, memory_index, invocation_history, store_log,
                    retention_vars, registration_vars, token_count,
                    standalone_vars>>

\* wrapper(*args, **kwargs) is called: last_exception = None and the loop
\* over range(max_retries) starts.
WrapperCalled ==
    /\ retry_pc \in {"idle", "returned", "raised"}
    /\ retry_pc' = "attempt"
    /\ attempt' = 0
    /\ last_exception' = None
    /\ call_log' = <<>>
    /\ backoff_sleeps' = <<>>
    /\ retry_outcome' = [kind |-> "none"]
    /\ UNCHANGED <<wrapped, not_retry_vars>>

\* One pass of the loop in which func returns: return func(*args, **kwargs)
AttemptReturns ==
    /\ retry_pc = "attempt"
    /\ attempt < wrapped.max_retries
    /\ \E input \in CallInputs(wrapped.func) :
         LET out == CallWrapped(wrapped.func, input)
         IN  /\ out.kind = "return"
             /\ call_log' = Append(call_log, input)
             /\ retry_outcome' = out
    /\ retry_pc' = "returned"
    /\ UNCHANGED <<wrapped, attempt, last_exception, backoff_sleeps, not_retry_vars>>

\* AttemptRaisesRetryable with the sleep ahead of the test for the last
\* attempt: the wrapper also sleeps before it gives up.
AttemptRaisesRetryable_sleep_first ==
    /\ retry_pc = "attempt"
    /\ attempt < wrapped.max_retries
    /\ \E input \in CallInputs(wrapped.func) :
         LET out == CallWrapped(wrapped.func, input)
         IN  /\ out.kind = "raise"
             /\ IsInstance(out.e, wrapped.retryable_exceptions)
             /\ call_log' = Append(call_log, input)
             /\ last_exception' = Some(out.e)
             /\ \E jitter \in Jitters(wrapped, BackoffDelay(wrapped, attempt)) :
                    backoff_sleeps' =
                        Append(backoff_sleeps,
                               BackoffDelay(wrapped, attempt) + jitter)
             /\ IF attempt = wrapped.max_retries - 1
                THEN /\ retry_outcome' = [kind |-> "raise", e |-> out.e]
                     /\ retry_pc' = "raised"
                     /\ UNCHANGED attempt
                ELSE /\ attempt' = attempt + 1
                     /\ UNCHANGED <<retry_pc, retry_outcome>>
    /\ UNCHANGED <<wrapped, not_retry_vars>>

\* One pass of the loop in which func raises a retryable exception: it is
\* kept in last_exception and raised if this was the last attempt; otherwise
\* the wrapper sleeps for the delay plus jitter and the loop goes on.
AttemptRaisesRetryable ==
    /\ retry_pc = "attempt"
    /\ attempt < wrapped.max_retries
    /\ \E input \in CallInputs(wrapped.func) :
         LET out == CallWrapped(wrapped.func, input)
         IN  /\ out.kind = "raise"
             /\ IsInstance(out.e, wrapped.retryable_exceptions)
             /\ call_log' = Append(call_log, input)
             /\ last_exception' = Some(out.e)
             /\ IF attempt = wrapped.max_retries - 1
                THEN /\ retry_outcome' = [kind |-> "raise", e |-> out.e]
                     /\ retry_pc' = "raised"
                     /\ UNCHANGED <<attempt, backoff_sleeps>>
                ELSE /\ \E jitter \in Jitters(wrapped, BackoffDelay(wrapped, attempt)) :
                          backoff_sleeps' =
                              Append(backoff_sleeps,
                                     BackoffDelay(wrapped, attempt) + jitter)
                     /\ attempt' = attempt + 1
                     /\ UNCHANGED <<retry_pc, retry_outcome>>
    /\ UNCHANGED <<wrapped, not_retry_vars>>

\* One pass of the loop in which func raises an exception the except clause
\* does not match: it leaves the wrapper.
AttemptRaisesOther ==
    /\ retry_pc = "attempt"
    /\ attempt < wrapped.max_retries
    /\ \E input \in CallInputs(wrapped.func) :
         LET out == CallWrapped(wrapped.func, input)
         IN  /\ out.kind = "raise"
             /\ ~IsInstance(out.e, wrapped.retryable_exceptions)
             /\ call_log' = Append(call_log, input)
             /\ retry_outcome' = out
    /\ retry_pc' = "raised"
    /\ UNCHANGED <<wrapped, attempt, last_exception, backoff_sleeps, not_retry_vars>>

\* The loop over range(max_retries) ends without a return or raise (it has
\* no pass when max_retries is 0): raise last_exception if there is one,
\* else RuntimeError("Unexpected retry failure").
NoAttemptLeft ==
    /\ retry_pc = "attempt"
    /\ attempt >= wrapped.max_retries
    /\ retry_outcome' =
           [kind |-> "raise",
            e |-> IF last_exception # None THEN last_exception[1]
                  ELSE [class |-> "RuntimeError"]]
    /\ retry_pc' = "raised"
    /\ UNCHANGED <<wrapped, attempt, last_exception, call_log, backoff_sleeps,
                   not_retry_vars>>

InitRetry ==
    AgentInit({TRUE}, {None}) /\ RetryIdle(WrappedFunctions) /\ StoreIdle
    /\ TokensIdle /\ RetentionIdle({<<>>}) /\ RegistrationIdle
    /\ StandaloneIdle

NextRetry ==
    \/ WrapperCalled
    \/ AttemptReturns
    \/ AttemptRaisesRetryable
    \/ AttemptRaisesOther
    \/ NoAttemptLeft

SpecRetry == InitRetry /\ [][NextRetry]_vars

\* -------------------------------------------------- memory store on its own

\* Session ids used with the store.
SessionIds == {"session", "test"}

\* Memories handed to save_memory.
Memories ==
    { <<>>,
      <<CallerMessage>>,
      <<CallerMessage, AssistantMessage(<<>>, <<TextContentBlock(TextPlain)>>)>> }

not_store_vars == <<loop_vars, invocation_history, retry_vars, token_count,
                    retention_vars, registration_vars, standalone_vars>>

\* memory_store.save_memory(session_id=id, memory=mem)
SaveMemory ==
    /\ Len(store_log) < MaxStoreCalls
    /\ \E id \in SessionIds, mem \in Memories :
         /\ memory_index' = save_memory(memory_index, id, mem)
         /\ store_log' = Append(store_log,
                               [op |-> "save", session_id |-> id, memory |-> mem])
    /\ UNCHANGED not_store_vars

\* memory_store.load_memory(session_id=id): the returned memory or the
\* KeyError is recorded with the call.
LoadMemory ==
    /\ Len(store_log) < MaxStoreCalls
    /\ \E id \in SessionIds :
         store_log' = Append(store_log,
                             [op |-> "load", session_id |-> id,
                              result |-> load_memory(memory_index, id)])
    /\ UNCHANGED <<memory_index, not_store_vars>>

InitStore == Init

NextStore == SaveMemory \/ LoadMemory

SpecStore == InitStore /\ [][NextStore]_vars

\* -------------------------------------------- invocation history on its own

\* Token counts a response reports.
TokenCounts == {0, 5, 7, 10, 20}

\* Replies of the transport that differ in their usage only.
UsageResponses ==
    { [stopReason |-> "end_turn", usage |-> Usage(i, o),
       output |-> <<WireText(TextPlain)>>] : i \in TokenCounts, o \in TokenCounts }

not_token_vars == <<loop_vars, memory_index, retry_vars, store_log,
                    retention_vars, registration_vars, standalone_vars>>

\* invocation_history.append(log=BaseInvocationLog(response=...))
AppendLog ==
    /\ Len(invocation_history) < MaxLogs
    /\ \E response \in UsageResponses :
         invocation_history' =
             _update_invocation_log(invocation_history,
                                    _parse_model_response(response))
    /\ UNCHANGED <<token_count, not_token_vars>>

\* invocation_history.get_cumulative_token_count()
CountTokens ==
    /\ token_count' = [logs |-> Len(invocation_history), raised |-> "none",
                       usage |-> get_cumulative_token_count(invocation_history)]
    /\ UNCHANGED <<invocation_history, not_token_vars>>

InitTokens == Init

NextTokens == AppendLog \/ CountTokens

SpecTokens == InitTokens /\ [][NextTokens]_vars

\* ------------------------------------------- retention filter on its own

\* BaseContentBlock.metadata of a block: a dict, empty by default.
WithMetadata(block, metadata) ==
    [k \in DOMAIN block \cup {"metadata"} |->
        IF k = "metadata" THEN metadata ELSE block[k]]

NoMetadata == <<>>

AfterNextTurn == [retention |-> "after_next_turn"]

Permanent == [retention |-> "permanent"]

\* block.metadata: the dict of the block, empty when none was given.
MetadataOf(block) ==
    IF "metadata" \in DOMAIN block THEN block.metadata ELSE NoMetadata

\* "retention" in metadata and metadata["retention"] == "after_next_turn"
IsAfterNextTurn(block) ==
    /\ "retention" \in DOMAIN MetadataOf(block)
    /\ MetadataOf(block)["retention"] = "after_next_turn"

\* The nested filter written as a removal from the list being iterated, which
\* steps over the block that follows each removed one.
RECURSIVE FilterToolResultContent_removing_in_place(_)
FilterToolResultContent_removing_in_place(blocks) ==
    IF blocks = <<>> THEN <<>>
    ELSE IF IsAfterNextTurn(Head(blocks))
         THEN IF Len(blocks) >= 2
              THEN <<blocks[2]>> \o
                   FilterToolResultContent_removing_in_place(Tail(Tail(blocks)))
              ELSE <<>>
         ELSE <<Head(blocks)>> \o
              FilterToolResultContent_removing_in_place(Tail(blocks))

\* The comprehension over tool_result_content: the untagged blocks, in order.
FilterToolResultContent(blocks) ==
    SelectSeq(blocks, LAMBDA block : ~IsAfterNextTurn(block))

\* message.model_copy() without deep=True: the copy is a new message whose
\* content blocks are the message's own.
model_copy_shallow(message) == [message |-> message, shares_blocks |-> TRUE]

\* message.model_copy(deep=True): the copy shares nothing with the message.
model_copy(message) == [message |-> message, shares_blocks |-> FALSE]

\* The argument's message once the loop body has run on its copy.  The loop
\* assigns to content_block.tool_result_content of the copy's kept tool
\* results, which reaches the message's own blocks only if the copy shares
\* them; processed_message.content is assigned on the copy in any case.
MessageAfter(message) ==
    IF model_copy(message).shares_blocks
    THEN LET content == message.content
         IN  [message EXCEPT !.content =
                [i \in 1..Len(content) |->
                    IF ~IsAfterNextTurn(content[i])
                       /\ content[i].type = "tool_result"
                    THEN [content[i] EXCEPT
                            !.tool_result_content = FilterToolResultContent(@)]
                    ELSE content[i]]]
    ELSE message

\* The list handed to the filter, after the call.
ArgumentAfter(messages) ==
    [i \in 1..Len(messages) |-> MessageAfter(messages[i])]

\* The loop over one message's content: a tagged block is dropped whole; a
\* kept tool result has its nested content filtered.
ProcessContent(content) ==
    LET kept == SelectSeq(content, LAMBDA block : ~IsAfterNextTurn(block))
    IN  [i \in 1..Len(kept) |->
            IF kept[i].type = "tool_result"
            THEN [kept[i] EXCEPT
                    !.tool_result_content = FilterToolResultContent(@)]
            ELSE kept[i]]

\* Every message of the list is copied and its content processed.
delete_tool_result_blocks_after_next_turn(messages) ==
    [i \in 1..Len(messages) |->
        [messages[i] EXCEPT !.content = ProcessContent(@)]]

PlainText == WithMetadata(TextContentBlock(<<"note">>), NoMetadata)

TaggedText == WithMetadata(TextContentBlock(<<"screen">>), AfterNextTurn)

PermanentText == WithMetadata(TextContentBlock(<<"keep">>), Permanent)

ToolResult(tool_use_id, nested, metadata) ==
    WithMetadata(ToolResultContentBlock(tool_use_id, nested), metadata)

\* Contents a message handed to the filter can have.
RetentionContents ==
    { <<>>,
      <<PlainText>>,
      <<TaggedText>>,
      <<PermanentText, TaggedText, PlainText>>,
      <<ToolResult("a1", <<PlainText, TaggedText>>, NoMetadata)>>,
      <<ToolResult("a1", <<TaggedText, TaggedText, PlainText>>, NoMetadata),
        TaggedText>>,
      <<ToolResult("a1", <<PlainText>>, AfterNextTurn), PlainText>>,
      <<ToolResult("a1", <<TaggedText>>, Permanent),
        ToolResult("a2", <<>>, NoMetadata)>> }

\* A conversation alternates user and assistant messages.
RetentionMessage(i, content) ==
    IF i % 2 = 1 THEN UserMessageOf(content)
    ELSE AssistantMessage(<<>>, content)

RetentionLists ==
    UNION { { [i \in 1..n |-> RetentionMessage(i, contents[i])] :
                contents \in [1..n -> RetentionContents] } : n \in 0..MaxMessages }

not_retention_vars == <<loop_vars, memory_index, invocation_history,
                        retry_vars, store_log, token_count, registration_vars,
                        standalone_vars>>

\* delete_tool_result_blocks_after_next_turn(messages), given the list or what
\* the previous application returned: the result is recorded, and the list
\* that was handed in is what the call left of it.
ApplyFilter ==
    /\ Len(retention_passes) < MaxPasses
    /\ LET first == retention_passes = <<>>
           argument == IF first THEN retention_input
                       ELSE retention_passes[Len(retention_passes)]
       IN  /\ retention_input' =
                  IF first THEN ArgumentAfter(argument) ELSE retention_input
           /\ retention_passes' =
                  Append(IF first THEN retention_passes
                         ELSE [retention_passes EXCEPT
                                 ![Len(retention_passes)] = ArgumentAfter(argument)],
                         delete_tool_result_blocks_after_next_turn(argument))
    /\ UNCHANGED not_retention_vars

InitRetention ==
    AgentInit({TRUE}, {None}) /\ RetryIdle({DefaultBackoff("_invoke")})
    /\ StoreIdle /\ TokensIdle /\ RetentionIdle(RetentionLists)
    /\ RegistrationIdle /\ StandaloneIdle

NextRetention == ApplyFilter

SpecRetention == InitRetention /\ [][NextRetention]_vars

\* ------------------------------------------- tool registration on its own

BaseToolGroup(name, instructions, group_tools) ==
    [name |-> name, instructions |-> instructions, tools |-> group_tools]

\* BaseToolGroup.get_tool_names
get_tool_names(tool_group) ==
    [i \in 1..Len(tool_group.tools) |-> tool_group.tools[i].name]

\* TOOL_GROUP_PROMPT_TEMPLATE.format(...): the group's name, its instructions
\* and the list of its tool names between the fixed parts of the template.
TOOL_GROUP_PROMPT(tool_group) ==
    <<"<", tool_group.name, "_INSTRUCTIONS>", tool_group.instructions,
      "The tools in this tool group include:", "<tools>", "[">>
    \o get_tool_names(tool_group)
    \o <<"]", "</tools>", "</", tool_group.name, "_INSTRUCTIONS>">>

\* BaseAgent.add_tool
add_tool(tool_list, tool) == Append(tool_list, tool)

\* add_tool_group leaving out the tools whose name is already registered.
add_tool_group_unique_names(tool_list, message, tool_group) ==
    IF tool_group.tools # <<>>
    THEN [raised |-> "none",
          tools |-> tool_list \o
              SelectSeq(tool_group.tools,
                        LAMBDA tool : FirstMatch(tool_list, tool.name) = 0),
          system_message |->
              Append(message, TextContentBlock(TOOL_GROUP_PROMPT(tool_group)))]
    ELSE [raised |-> "Exception", tools |-> tool_list,
          system_message |-> message]

\* BaseAgent.add_tool_group: every tool of a non-empty group is added, then
\* the group's prompt is appended to the agent's system message as one more
\* text block; an empty group raises before anything is changed.
add_tool_group(tool_list, message, tool_group) ==
    IF tool_group.tools # <<>>
    THEN [raised |-> "none",
          tools |-> tool_list \o tool_group.tools,
          system_message |->
              Append(message, TextContentBlock(TOOL_GROUP_PROMPT(tool_group)))]
    ELSE [raised |-> "Exception", tools |-> tool_list,
          system_message |-> message]

\* ModelRequest(messages=self.get_messages(), system_message=system_message,
\* tools=self.get_tools(), ...) as invoke/ainvoke build it when they are called
\* without a system_message argument: the parameter's default is the
\* module-level DEFAULT_SYSTEM_MESSAGE, not the agent's field.
ModelRequest(messages, tool_list) ==
    [messages |-> messages, system_message |-> DEFAULT_SYSTEM_MESSAGE,
     tools |-> tool_list]

\* Tool groups a caller registers.
ToolGroups ==
    { BaseToolGroup("empty", "nothing to use", <<>>),
      BaseToolGroup("math", "use sqrt for roots",
                    << [name |-> "sqrt", behaviour |-> "ok"],
                       [name |-> "calc", behaviour |-> "error"] >>),
      BaseToolGroup("web", "cite what search returns",
                    << [name |-> "search", behaviour |-> "ok"] >>) }

\* Tools a caller registers one by one.
SingleTools == { [name |-> "clock", behaviour |-> "ok"] }

not_registration_vars ==
    <<return_final_response_only, requests_per_minute_limit, turn_vars,
      dispatch_vars, memory, pc, current_iteration, model_response,
      stop_result, exception, sleep_log, adapter_raised, model_calls,
      calls_total, memory_index, invocation_history, retry_vars, store_log,
      token_count, retention_vars, standalone_vars>>

\* agent.add_tool(tool)
AddTool ==
    /\ Len(tool_ops) < MaxToolOps
    /\ \E tool \in SingleTools :
         /\ tools' = add_tool(tools, tool)
         /\ tool_ops' = Append(tool_ops, [op |-> "add_tool", tool |-> tool])
    /\ UNCHANGED <<system_message, not_registration_vars>>

\* agent.add_tool_group(tool_group)
AddToolGroup ==
    /\ Len(tool_ops) < MaxToolOps
    /\ \E tool_group \in ToolGroups :
         LET r == add_tool_group(tools, system_message, tool_group)
         IN  /\ tools' = r.tools
             /\ system_message' = r.system_message
             /\ tool_ops' = Append(tool_ops, [op |-> "add_tool_group",
                                              tool_group |-> tool_group,
                                              raised |-> r.raised])
    /\ UNCHANGED not_registration_vars

\* agent.clear_tools()
ClearTools ==
    /\ Len(tool_ops) < MaxToolOps
    /\ tools' = <<>>
    /\ tool_ops' = Append(tool_ops, [op |-> "clear_tools"])
    /\ UNCHANGED <<system_message, not_registration_vars>>

\* The request an iteration of invoke/ainvoke builds from the agent as it is.
BuildModelRequest ==
    /\ Len(tool_ops) < MaxToolOps
    /\ tool_ops' = Append(tool_ops, [op |-> "request",
                                     request |-> ModelRequest(memory, tools)])
    /\ UNCHANGED <<tools, system_message, not_registration_vars>>

InitTools == AgentInit({TRUE}, {None}) /\ ComponentsIdle

NextTools == AddTool \/ AddToolGroup \/ ClearTools \/ BuildModelRequest

SpecTools == InitTools /\ [][NextTools]_vars

\* ------------------------------------------------- BaseMemory on its own

\* BaseMemory.append
append(mem, message) == Append(mem, message)

\* BaseMemory.get_messages: the list itself.
get_messages(mem) == mem

\* set_messages adding the given messages to those already held.
set_messages_extending(mem, messages) == mem \o messages

\* BaseMemory.set_messages: self.memory = messages
set_messages(mem, messages) == messages

\* BaseMemory.clear: self.memory = []
clear(mem) == <<>>

\* TextContentBlock.format
format_text(block) == [text |-> block.text]

\* BaseMessage.format: the role and the formatted content blocks.
format(message) ==
    [role |-> message.role,
     content |-> [i \in 1..Len(message.content) |->
                     format_text(message.content[i])]]

\* BaseMemory.get_converse_messages
get_converse_messages(mem) == [i \in 1..Len(mem) |-> format(mem[i])]

\* Messages given to append.
MemoryMessages ==
    { CallerMessage, AssistantMessage(<<>>, <<TextContentBlock(TextPlain)>>) }

\* Lists given to set_messages.
MemoryLists ==
    { <<>>,
      <<AssistantMessage(<<>>, <<TextContentBlock(TextFinal)>>)>>,
      <<CallerMessage, AssistantMessage(<<>>, <<TextContentBlock(TextPlain)>>)>> }

not_memory_vars ==
    <<loop_vars, memory_index, invocation_history, retry_vars, store_log,
      token_count, retention_vars, registration_vars, scheduler_vars,
      session_vars, request_log>>

\* memory.append(message=message)
MemoryAppend ==
    /\ Len(memory_ops) < MaxMemoryOps
    /\ \E message \in MemoryMessages :
         /\ base_memory' = append(base_memory, message)
         /\ memory_ops' = Append(memory_ops,
                                 [op |-> "append", message |-> message])
    /\ UNCHANGED not_memory_vars

\* memory.set_messages(messages)
MemorySetMessages ==
    /\ Len(memory_ops) < MaxMemoryOps
    /\ \E messages \in MemoryLists :
         /\ base_memory' = set_messages(base_memory, messages)
         /\ memory_ops' = Append(memory_ops,
                                 [op |-> "set_messages", messages |-> messages])
    /\ UNCHANGED not_memory_vars

\* memory.clear()
MemoryClear ==
    /\ Len(memory_ops) < MaxMemoryOps
    /\ base_memory' = clear(base_memory)
    /\ memory_ops' = Append(memory_ops, [op |-> "clear"])
    /\ UNCHANGED not_memory_vars

\* memory.get_messages()
MemoryGetMessages ==
    /\ Len(memory_ops) < MaxMemoryOps
    /\ memory_ops' = Append(memory_ops, [op |-> "get_messages",
                                         result |-> get_messages(base_memory)])
    /\ UNCHANGED <<base_memory, not_memory_vars>>

\* memory.get_converse_messages()
MemoryGetConverseMessages ==
    /\ Len(memory_ops) < MaxMemoryOps
    /\ memory_ops' = Append(memory_ops,
                            [op |-> "get_converse_messages",
                             result |-> get_converse_messages(base_memory)])
    /\ UNCHANGED <<base_memory, not_memory_vars>>

NextMemory ==
    \/ MemoryAppend
    \/ MemorySetMessages
    \/ MemoryClear
    \/ MemoryGetMessages
    \/ MemoryGetConverseMessages

SpecMemory == Init /\ [][NextMemory]_vars

\* ------------------------------------- agents sharing one BaseMemoryStore

\* The default of the session_id field: str(uuid4()) is evaluated when the
\* class body runs, so the field has this one value as its default.
DefaultSessionId == "uuid4"

\* The session_id argument of the constructor: not given, given as None, or
\* given as an id.
SessionIdArguments ==
    {<<>>, <<None>>} \cup {<<Some(id)>> : id \in SessionIds}

\* The session_id field after validation.
session_id_field(argument) ==
    IF argument = <<>> THEN Some(DefaultSessionId) ELSE argument[1]

\* "if self.session_id": the field holds an id (the ids are non-empty).
IsSet(session_id) == session_id # None

\* model_post_init letting the KeyError of load_memory propagate.
model_post_init_uncaught(index, session_id, fresh) ==
    IF IsSet(session_id)
    THEN LET loaded == load_memory(index, session_id[1])
         IN  [raised |-> loaded.raised,
              memory |-> IF loaded.raised = "none" THEN loaded.memory
                         ELSE fresh]
    ELSE [raised |-> "none", memory |-> fresh]

\* BaseAgent.model_post_init: the memory stored under the session id replaces
\* the fresh one; a KeyError is caught and the fresh memory is kept.
model_post_init(index, session_id, fresh) ==
    IF IsSet(session_id)
    THEN LET loaded == load_memory(index, session_id[1])
         IN  [raised |-> "none",
              memory |-> IF loaded.raised = "none" THEN loaded.memory
                         ELSE fresh]
    ELSE [raised |-> "none", memory |-> fresh]

\* The user message of a turn of the a-th agent.
TurnMessage(a) == UserMessage(Some(<<"Hi", ToString(a)>>))

\* The model's reply in a turn of the a-th agent.
TurnReply(a) ==
    AssistantMessage(<<>>, <<TextContentBlock(<<"Hello!", ToString(a)>>)>>)

not_session_vars ==
    <<loop_vars, memory_index, invocation_history, retry_vars, store_log,
      token_count, retention_vars, registration_vars, memory_vars,
      scheduler_vars>>

\* BaseAgent(model=..., memory_store=store[, session_id=...]): the memory
\* field gets a new BaseMemory, then model_post_init runs.
ConstructAgent ==
    /\ Len(agents) < MaxAgents
    /\ \E argument \in SessionIdArguments :
         LET fresh == Len(heap) + 1
             session_id == session_id_field(argument)
             post == model_post_init(store_index, session_id, fresh)
         IN  /\ heap' = Append(heap, <<>>)
             /\ agents' = Append(agents, [argument |-> argument,
                                          session_id |-> session_id,
                                          memory |-> post.memory,
                                          raised |-> post.raised])
    /\ UNCHANGED <<store_index, request_log, not_session_vars>>

\* The BaseMemory object the a-th agent holds after _append_memory(message),
\* and the store after the save that follows.
HeapAfterAppend(objects, a, message) ==
    [objects EXCEPT ![agents[a].memory] = append(@, message)]

IndexAfterAppend(index, a) ==
    IF IsSet(agents[a].session_id)
    THEN save_memory(index, agents[a].session_id[1], agents[a].memory)
    ELSE index

\* One turn of an agent: the user message is appended and saved, the request
\* is built from the memory, the reply is appended and saved.
AgentTurn ==
    /\ Len(request_log) < MaxTurns
    /\ \E a \in 1..Len(agents) :
         /\ agents[a].raised = "none"
         /\ LET asked == HeapAfterAppend(heap, a, TurnMessage(a))
            IN  /\ request_log' =
                       Append(request_log,
                              [agent |-> a,
                               session_id |-> agents[a].session_id,
                               messages |-> get_messages(asked[agents[a].memory])])
                /\ heap' = [asked EXCEPT ![agents[a].memory] =
                                             append(@, TurnReply(a))]
                /\ store_index' = IndexAfterAppend(store_index, a)
    /\ UNCHANGED <<agents, not_session_vars>>

NextSessions == ConstructAgent \/ AgentTurn

SpecSessions == Init /\ [][NextSessions]_vars

\* ------------------------------------------- tasks on one event loop

\* What a task runs: ainvoke_tool awaiting BaseTool.ainvoke of a tool that
\* keeps the default, or a coroutine awaiting BaseChatModel.ainvoke.
TaskKinds == {"tool", "model"}

not_scheduler_vars ==
    <<loop_vars, memory_index, invocation_history, retry_vars, store_log,
      token_count, retention_vars, registration_vars, memory_vars,
      session_vars, request_log>>

\* The event loop can give the thread to the j-th task: no coroutine holds
\* the thread and the task waits to be started or resumed.
Runnable(j) ==
    /\ running = 0
    /\ loop_tasks[j].state \in {"created", "ready"}

\* asyncio.create_task: the coroutine is scheduled, not yet started.  Only
\* code that holds the thread creates tasks.
CreateTask ==
    /\ Len(loop_tasks) < MaxTasks
    /\ running = 0
    /\ \E kind \in TaskKinds :
         loop_tasks' = Append(loop_tasks, [kind |-> kind, state |-> "created"])
    /\ UNCHANGED <<running, not_scheduler_vars>>

\* BaseTool.ainvoke: "return self.invoke(*args, **kwargs)".  The coroutine
\* calls invoke itself and reaches no await while invoke runs, so the task
\* keeps the thread.
StartToolTask ==
    \E k \in 1..Len(loop_tasks) :
        /\ Runnable(k)
        /\ loop_tasks[k] = [kind |-> "tool", state |-> "created"]
        /\ loop_tasks' = [loop_tasks EXCEPT ![k].state = "invoking"]
        /\ running' = k
        /\ UNCHANGED not_scheduler_vars

\* The tool's invoke returns; ainvoke and the task finish with it.
ToolInvokeReturns ==
    \E k \in 1..Len(loop_tasks) :
        /\ running = k
        /\ loop_tasks[k].state = "invoking"
        /\ loop_tasks' = [loop_tasks EXCEPT ![k].state = "done"]
        /\ running' = 0
        /\ UNCHANGED not_scheduler_vars

\* BaseChatModel.ainvoke: invoke is handed to the executor and the coroutine
\* awaits the future, giving the thread back to the loop.
StartModelTask ==
    \E k \in 1..Len(loop_tasks) :
        /\ Runnable(k)
        /\ loop_tasks[k] = [kind |-> "model", state |-> "created"]
        /\ loop_tasks' = [loop_tasks EXCEPT ![k].state = "awaiting"]
        /\ UNCHANGED <<running, not_scheduler_vars>>

\* The executor's thread finishes invoke, whatever the loop's thread does.
ExecutorCompletes ==
    \E k \in 1..Len(loop_tasks) :
        /\ loop_tasks[k].state = "awaiting"
        /\ loop_tasks' = [loop_tasks EXCEPT ![k].state = "ready"]
        /\ UNCHANGED <<running, not_scheduler_vars>>

\* The loop resumes the coroutine after its await; it returns the response.
ResumeModelTask ==
    \E k \in 1..Len(loop_tasks) :
        /\ Runnable(k)
        /\ loop_tasks[k].state = "ready"
        /\ loop_tasks' = [loop_tasks EXCEPT ![k].state = "done"]
        /\ UNCHANGED <<running, not_scheduler_vars>>

NextScheduler ==
    \/ CreateTask
    \/ StartToolTask
    \/ ToolInvokeReturns
    \/ StartModelTask
    \/ ExecutorCompletes
    \/ ResumeModelTask

SpecScheduler == Init /\ [][NextScheduler]_vars

\* ------------------------------------------------ ComputerAgent.invoke
\* ComputerAgent overrides the two hooks of invoke; ainvoke keeps the hooks of
\* BaseAgent, so the calls here are calls of invoke.

\* _get_screenshot: the image block, its filename made of the time of the
\* screenshot.  _final_processing sleeps a second before each screenshot, so
\* the times of two screenshots differ; the time is counted in model requests
\* built so far.
ScreenshotBlock(timestamp) ==
    [type |-> "image",
     filename |-> [prefix |-> "screenshot_", timestamp |-> timestamp],
     extension |-> "png",
     metadata |-> AfterNextTurn]

\* The text block _final_processing appends after the screenshot.
MousePositionBlock ==
    WithMetadata(TextContentBlock(<<"Current Mouse position: ", "(0, 0)">>),
                 AfterNextTurn)

\* ComputerAgent._final_processing: the screenshot and the mouse position
\* are appended to the content of the last message of memory.
ComputerAgent_final_processing(mem, timestamp) ==
    [mem EXCEPT ![Len(mem)].content =
                    @ \o <<ScreenshotBlock(timestamp), MousePositionBlock>>]

\* The post-invocation hook of a ComputerAgent that leaves the messages as
\* they are.
ComputerAgent_post_invocation_processing_unfiltered(callback, mem, log) ==
    [memory |-> mem,
     callback_log |-> IF callback # None
                      THEN Append(log, mem[Len(mem)].update_message)
                      ELSE log,
     raised |-> IF callback # None THEN "none" ELSE "TypeError"]

\* ComputerAgent._post_invocation_processing: the messages are replaced by
\* the filtered ones, then update_callback is called whatever it is; None is
\* not callable.
ComputerAgent_post_invocation_processing(callback, mem, log) ==
    LET filtered == delete_tool_result_blocks_after_next_turn(mem)
    IN  [memory |-> filtered,
         callback_log |-> IF callback # None
                          THEN Append(log, filtered[Len(filtered)].update_message)
                          ELSE log,
         raised |-> IF callback # None THEN "none" ELSE "TypeError"]

\* What model.invoke raises when it returns nothing: ContextWindowExceeded,
\* after which _invoke_model reads its unbound local, or an error of the
\* transport that the adapter raises again.
ModelFailures ==
    { [adapter |-> "ContextWindowExceeded", exception |-> "UnboundLocalError"],
      [adapter |-> "ClientError", exception |-> "ClientError"] }

not_request_vars ==
    <<retry_vars, store_log, token_count, retention_vars, registration_vars,
      memory_vars, scheduler_vars, session_vars>>

\* agent.invoke(user_message, max_iterations=n[, update_callback=callback])
ComputerInvoke ==
    \E n \in 1..MaxIter, callback \in {None, Some("callback")} :
        StartTurn("sync", n, callback)

\* One pass of the loop from the request to the post-invocation hook, the
\* model returning a response.
ComputerInvokeModel ==
    /\ pc = "loop"
    /\ LoopCondition(current_iteration, max_iterations)
    /\ request_log' = Append(request_log, [messages |-> get_messages(memory),
                                           outcome |-> "returned"])
    /\ \E response \in TransportResponses :
         LET parsed == _parse_model_response(response)
             appended == _append_memory(memory, parsed.assistant_message)
             post == ComputerAgent_post_invocation_processing(
                         update_callback, appended, callback_log)
         IN  /\ model_response' = parsed
             /\ invocation_history' =
                    _update_invocation_log(invocation_history, parsed)
             /\ memory' = post.memory
             /\ callback_log' = post.callback_log
             /\ exception' = post.raised
             /\ pc' = IF post.raised = "none" THEN "handle" ELSE "raised"
    /\ memory_index' = _save_to_store(memory_index, memory')
    /\ model_calls' = model_calls + 1
    /\ calls_total' = calls_total + 1
    /\ block_idx' = 1
    /\ tool_result_message' = <<>>
    /\ tasks' = <<>>
    /\ dispatch_log' = <<>>
    /\ adapter_raised' = "none"
    /\ UNCHANGED <<not_request_vars, agent_vars, mode, max_iterations,
                   update_callback, sleep_log, current_iteration, stop_result>>

\* The request is built and model.invoke raises: the call is left before the
\* assistant message and the hooks.
ComputerInvokeModelRaises ==
    /\ pc = "loop"
    /\ LoopCondition(current_iteration, max_iterations)
    /\ request_log' = Append(request_log, [messages |-> get_messages(memory),
                                           outcome |-> "raised"])
    /\ \E failure \in ModelFailures :
         /\ adapter_raised' = failure.adapter
         /\ exception' = failure.exception
    /\ model_calls' = model_calls + 1
    /\ calls_total' = calls_total + 1
    /\ pc' = "raised"
    /\ UNCHANGED <<not_request_vars, agent_vars, turn_vars, sleep_log, memory,
                   memory_index, invocation_history, current_iteration,
                   model_response, stop_result, dispatch_vars>>

\* _final_processing, then the result of the handler breaks out of the loop.
ComputerIterationBreaks ==
    /\ pc = "tail"
    /\ stop_result.status # "continue"
    /\ memory' = ComputerAgent_final_processing(memory, Len(request_log))
    /\ memory_index' = _save_to_store(memory_index, memory')
    /\ pc' = "returned"
    /\ UNCHANGED <<component_vars, agent_vars, turn_vars, sleep_log,
                   adapter_raised, invocation_history, current_iteration,
                   model_response, stop_result, exception, dispatch_vars,
                   model_calls, calls_total>>

\* _final_processing, then the iteration is completed and counted.
ComputerIterationContinues ==
    /\ pc = "tail"
    /\ stop_result.status = "continue"
    /\ memory' = ComputerAgent_final_processing(memory, Len(request_log))
    /\ memory_index' = _save_to_store(memory_index, memory')
    /\ sleep_log' = _handle_completed_iteration(requests_per_minute_limit, sleep_log)
    /\ current_iteration' = current_iteration + 1
    /\ pc' = "loop"
    /\ UNCHANGED <<component_vars, agent_vars, turn_vars, adapter_raised,
                   invocation_history, model_response, stop_result, exception,
                   dispatch_vars, model_calls, calls_total>>

NextComputer ==
    \/ ComputerInvoke
    \/ ComputerInvokeModel
    \/ ComputerInvokeModelRaises
    \/ LoopExit
    \/ HandleEndTurn
    \/ HandleOtherStopReason
    \/ HandleToolUseBlock
    \/ FinishToolUse
    \/ ComputerIterationBreaks
    \/ ComputerIterationContinues

SpecComputer == Init /\ [][NextComputer]_vars

\* ---------------------------------------------------------------- properties

LastMessage == memory[Len(memory)]

IsToolUse(block) == block.type = "tool_use"

\* The tool-use blocks of the assistant message being dispatched, in order.
ToolUses == SelectSeq(Content, IsToolUse)

\* Position of a tool_use_id among the tool-use blocks of the message.
PosOf(id) == CHOOSE k \in 1..Len(ToolUses) : ToolUses[k].tool_use_id = id

\* The logs of the model calls of the running call (none of them raised).
TurnLogs ==
    SubSeq(invocation_history, Len(invocation_history) - model_calls + 1,
           Len(invocation_history))

\* A TOOL_USE dispatch has just finished: its tool-result message is the
\* last message of memory.
ToolUseDone(m) ==
    pc = "tail" /\ mode = m /\ model_response.stop_reason = "tool_use"

\* The END_TURN response carries no extracted final response although the
\* agent returns the final response only.
Ungated ==
    /\ return_final_response_only
    /\ model_response.stop_reason = "end_turn"
    /\ ~Truthy(model_response.assistant_message.final_response)

\* C1: a call with max_iterations = N whose model responses all have stop
\* reason TOOL_USE never returns a normal result: it ends by raising
\* MaxIterationsExceeded after N completed iterations.
C1_RaisesAtCap ==
    (/\ pc = "returned"
     /\ model_calls = max_iterations
     /\ \A k \in 1..Len(TurnLogs) : TurnLogs[k].stop_reason = "tool_use")
    => exception = "MaxIterationsExceeded"

\* C2: every value returned by invoke/ainvoke has status END_TURN or ERROR
\* and carries a body; CONTINUE is never returned.
C2_TerminalResult ==
    pc = "returned" =>
        /\ stop_result.status \in {"end_turn", "error"}
        /\ "body" \in DOMAIN stop_result

\* C3: after every completed iteration, in any sequence of turns on one
\* agent, the roles of the messages of Memory strictly alternate.
C3_Alternation ==
    pc = "tail" =>
        \A k \in 1..(Len(memory) - 1) : memory[k].role # memory[k + 1].role

\* C4: in ainvoke's tool dispatch the result blocks of the combined
\* tool-result message follow the order of the tool-use blocks: no result
\* for a later tool use precedes a result for an earlier one.
C4_ResultOrder ==
    ToolUseDone("async") =>
        \A p, q \in 1..Len(LastMessage.content) :
            p < q => PosOf(LastMessage.content[p].tool_use_id)
                       <= PosOf(LastMessage.content[q].tool_use_id)

\* C5: in ainvoke's tool dispatch the tool-result message holds exactly one
\* result block per tool_use_id of the assistant message, N blocks for N
\* tool uses.
C5_OneResultPerId ==
    ToolUseDone("async") =>
        /\ Len(LastMessage.content) = Len(ToolUses)
        /\ \A k \in 1..Len(ToolUses) :
               Cardinality({p \in 1..Len(LastMessage.content) :
                   LastMessage.content[p].tool_use_id = ToolUses[k].tool_use_id}) = 1

\* C6 as stated: with return_final_response_only, a call never ends on an
\* END_TURN response from which no final response was extracted; another
\* model call always follows.
C6_AlwaysAnotherCall == ~(pc = "returned" /\ Ungated)

\* C6, amended: on such a response the handler appends the corrective user
\* message and its result is CONTINUE, the counter is incremented, and the
\* next step is another model call exactly when the incremented counter is
\* still below max_iterations; otherwise the call ends there.
C6_Gating ==
    [][Ungated =>
         /\ pc = "handle" =>
                /\ pc' = "tail"
                /\ stop_result' = [status |-> "continue"]
                /\ memory' = Append(memory, UserMessage(Some(FINAL_RESPONSE_PROMPT)))
         /\ pc = "tail" =>
                /\ pc' = "loop"
                /\ current_iteration' = current_iteration + 1
         /\ (pc = "loop" /\ current_iteration < max_iterations) =>
                /\ pc' \in {"handle", "raised"}
                /\ model_calls' = model_calls + 1
         /\ (pc = "loop" /\ current_iteration >= max_iterations) =>
                pc' = "returned"]_vars

\* C6 witness: a re-prompt was appended and the model was called again.
C6_Witness ==
    /\ pc = "handle"
    /\ model_calls = 2
    /\ Len(memory) >= 3
    /\ memory[Len(memory) - 1] = UserMessage(Some(FINAL_RESPONSE_PROMPT))
    /\ memory[Len(memory) - 2].role = "assistant"

\* C7: with return_final_response_only, when the first response of a turn
\* is END_TURN with text <final_response>Hello!</final_response> and no tool
\* use, the turn ends on that iteration with status END_TURN and body text
\* Hello!.
C7_HelloScenario ==
    (/\ pc = "tail"
     /\ return_final_response_only
     /\ model_calls = 1
     /\ model_response.stop_reason = "end_turn"
     /\ model_response.assistant_message.content = <<TextContentBlock(TextFinal)>>)
    => /\ stop_result.status = "end_turn"
       /\ stop_result.body.text = Some(<<"Hello!">>)

\* C8: when the model adapter raises ContextWindowExceeded the call returns
\* the ERROR result of the default handler and raises nothing.
C8_ContextWindowResult ==
    adapter_raised = "ContextWindowExceeded" =>
        /\ exception = "none"
        /\ pc = "returned"
        /\ stop_result = _handle_context_window_exceeded

\* C9: a tool-use block naming an unregistered tool invokes no tool, gets a
\* result block carrying the standard not-found message, and the handler
\* result is CONTINUE; in invoke and in ainvoke alike.
C9_NotFound ==
    (pc = "tail" /\ model_response.stop_reason = "tool_use") =>
        \A k \in 1..Len(ToolUses) :
            FirstMatch(tools, ToolUses[k].tool_name) = 0 =>
                /\ \A d \in 1..Len(dispatch_log) :
                       dispatch_log[d].tool_use_id # ToolUses[k].tool_use_id
                /\ \E p \in 1..Len(LastMessage.content) :
                       LastMessage.content[p] =
                           ToolResultContentBlock(ToolUses[k].tool_use_id,
                                                  NotFoundToolResponse.content)
                /\ stop_result = [status |-> "continue"]

\* The first tool registered under the block's name raises when invoked.
Raises(block) ==
    /\ FirstMatch(tools, block.tool_name) # 0
    /\ ToolInvoke(tools[FirstMatch(tools, block.tool_name)]).raised

\* C10: in sync invoke a raising tool never makes the call raise; its
\* tool_use_id gets an ERROR response whose text reports the exception, every
\* tool-use block of the message is still dispatched and answered, and the
\* handler result is CONTINUE.
C10_ToolErrorInBand ==
    mode = "sync" =>
        /\ exception # "ToolError"
        /\ ToolUseDone("sync") =>
               /\ stop_result = [status |-> "continue"]
               /\ Len(LastMessage.content) = Len(ToolUses)
               /\ \A k \in 1..Len(ToolUses) :
                      /\ LastMessage.content[k].tool_use_id = ToolUses[k].tool_use_id
                      /\ FirstMatch(tools, ToolUses[k].tool_name) # 0 =>
                             \E d \in 1..Len(dispatch_log) :
                                 dispatch_log[d].tool_use_id = ToolUses[k].tool_use_id
                      /\ Raises(ToolUses[k]) =>
                             /\ \E d \in 1..Len(dispatch_log) :
                                    /\ dispatch_log[d].tool_use_id =
                                           ToolUses[k].tool_use_id
                                    /\ dispatch_log[d].raised
                                    /\ dispatch_log[d].status = "ERROR"
                             /\ LastMessage.content[k].tool_result_content =
                                    <<TextContentBlock(<<"Error executing tool: ",
                                                         ToolUses[k].tool_name>>)>>

\* C10 witness: the first tool of a two-tool message raised and the second
\* was dispatched after it.
C10_Witness ==
    /\ ToolUseDone("sync")
    /\ Len(ToolUses) = 2
    /\ Raises(ToolUses[1])
    /\ ~Raises(ToolUses[2])
    /\ Len(dispatch_log) = 2

\* C11: in ainvoke's tool dispatch, once a tool task has raised, the dispatch
\* is abandoned: the call does not go on to another block, another model call
\* or a result; what it raises is the tool's exception; and no tool-result
\* message is appended, so the assistant message of the iteration stays the
\* last message of memory and of the stored memory, whatever results had
\* been collected for earlier blocks.
C11_FanOutAborted ==
    (\E k \in 1..Len(tasks) : tasks[k].state = "raised") =>
        /\ mode = "async"
        /\ pc \in {"gather", "raised"}
        /\ pc = "raised" => exception = "ToolError"
        /\ LastMessage = model_response.assistant_message
        /\ memory_index[SessionId] = memory

\* A tool raised after a not-found block and a completed tool had already
\* contributed their result blocks.
C11_Witness ==
    /\ pc = "raised"
    /\ exception = "ToolError"
    /\ Len(tool_result_message) = 2
    /\ \E k \in 1..Len(tasks) : tasks[k].state = "done"

\* A step in which a model call returned a response: the session's call
\* count went up and the adapter did not raise.
ModelCallReturned ==
    calls_total' = calls_total + 1 /\ adapter_raised' = "none"

\* C12: every model call that returns a response, whatever its stop reason,
\* appends exactly one log to the invocation history (the log of that
\* response) and the assistant message to memory, and this is done when the
\* stop reason is about to be dispatched (no handler has acted yet); no
\* other step changes the history, so its length is the number of model
\* calls that returned.
C12_LogThenMessage ==
    [][IF ModelCallReturned
       THEN /\ Len(invocation_history') = Len(invocation_history) + 1
            /\ SubSeq(invocation_history', 1, Len(invocation_history))
                   = invocation_history
            /\ LET log == invocation_history'[Len(invocation_history')]
               IN  /\ log.stop_reason = model_response'.stop_reason
                   /\ log.output_message = model_response'.assistant_message
                   /\ memory' = Append(memory, log.output_message)
            /\ pc' = "handle"
            /\ block_idx' = 1
            /\ tool_result_message' = <<>>
            /\ stop_result' = stop_result
       ELSE invocation_history' = invocation_history]_vars

\* Three model calls were issued over two turns; the second raised, the
\* third returned MAX_TOKENS: two logs, the last one for that response.
C12_Witness ==
    /\ calls_total = 3
    /\ Len(invocation_history) = 2
    /\ pc = "handle"
    /\ model_response.stop_reason = "max_tokens"
    /\ invocation_history[1].stop_reason = "tool_use"
    /\ invocation_history[2].stop_reason = "max_tokens"
    /\ LastMessage = invocation_history[2].output_message

\* The handler of one of the four other stop reasons has just returned.
OtherStopReasonHandled ==
    /\ pc = "tail"
    /\ model_response.stop_reason \in
           {"max_tokens", "stop_sequence", "guardrail_intervened", "content_filtered"}

\* C13 as stated: for MAX_TOKENS, STOP_SEQUENCE, GUARDRAIL_INTERVENED and
\* CONTENT_FILTERED the default handler ends the turn without appending a
\* message after the assistant message, and the body of its result is
\* nothing but a fixed descriptive text.
C13_FixedBody ==
    OtherStopReasonHandled =>
        /\ stop_result.status \in {"end_turn", "error"}
        /\ LastMessage = model_response.assistant_message
        /\ DOMAIN stop_result.body = {"text"}
        /\ Truthy(stop_result.body.text)

\* C13, amended: for the four stop reasons the default handler ends the turn
\* in that iteration: its result is terminal, no message follows the
\* assistant message, and the next step returns that result without a
\* further model call.  For MAX_TOKENS, GUARDRAIL_INTERVENED and
\* CONTENT_FILTERED the body is a fixed descriptive text; for STOP_SEQUENCE
\* the body carries the session id, the text attribute of the assistant
\* message and the cumulative token usage.
C13_OtherStopReasons ==
    [][OtherStopReasonHandled =>
        /\ stop_result.status \in {"end_turn", "error"}
        /\ LastMessage = model_response.assistant_message
        /\ CASE model_response.stop_reason = "max_tokens" ->
                   stop_result.body =
                       [text |-> Some(<<"Max output tokens exceeded for the model">>)]
             [] model_response.stop_reason = "guardrail_intervened" ->
                   stop_result.body = [text |-> Some(<<"Guardrail intervened">>)]
             [] model_response.stop_reason = "content_filtered" ->
                   stop_result.body =
                       [text |-> Some(<<"Content filtered by the model">>)]
             [] OTHER ->
                   /\ DOMAIN stop_result.body =
                          {"session_id", "text", "cumulative_usage"}
                   /\ stop_result.body.session_id = SessionId
                   /\ stop_result.body.text = model_response.assistant_message.text
                   /\ stop_result.body.cumulative_usage =
                          get_cumulative_token_count(invocation_history)
        /\ pc' = "returned"
        /\ stop_result' = stop_result
        /\ memory' = memory
        /\ calls_total' = calls_total]_vars

\* A STOP_SEQUENCE response in the second iteration, after a TOOL_USE one:
\* the body reports the usage of both calls.
C13_Witness ==
    /\ pc = "returned"
    /\ model_calls = 2
    /\ model_response.stop_reason = "stop_sequence"
    /\ stop_result.status = "end_turn"
    /\ stop_result.body.cumulative_usage.total_tokens = 42

\* Number of copies of the caller's message held by a memory.
CountCaller(mem) == Len(SelectSeq(mem, LAMBDA m : m = CallerMessage))

\* C14: the step that starts a call of invoke/ainvoke appends the caller's
\* user message to memory, once, with no model call issued yet; no other
\* step of the call, in any iteration, adds a copy of it.
C14_UserMessageOnce ==
    [][IF pc \in {"idle", "returned", "raised"} /\ pc' = "loop"
       THEN /\ memory' = Append(memory, CallerMessage)
            /\ model_calls' = 0
       ELSE CountCaller(memory') = CountCaller(memory)]_vars

\* The first call on the agent returned after two iterations: memory holds
\* the caller's message once, in front.
C14_Witness ==
    /\ pc = "returned"
    /\ model_calls = 2
    /\ current_iteration = 2
    /\ calls_total = 2
    /\ Len(memory) = 5
    /\ memory[1] = CallerMessage
    /\ CountCaller(memory) = 1

\* C15: with requests_per_minute_limit = L the running call has slept 60/L
\* seconds once for each of its iterations that completed with CONTINUE and
\* at no other point: none before the first model call, none while an
\* iteration is being handled, none after an iteration whose result is
\* terminal or that raised; without a limit it never sleeps.
C15_RateLimitDelay ==
    IF requests_per_minute_limit = None
    THEN sleep_log = <<>>
    ELSE /\ \A k \in 1..Len(sleep_log) :
               sleep_log[k] * requests_per_minute_limit[1] = 60 * 1000
         /\ pc = "idle" => sleep_log = <<>>
         /\ pc = "loop" => Len(sleep_log) = model_calls
         /\ pc \in {"handle", "gather", "tail", "raised"} =>
                Len(sleep_log) + 1 = model_calls
         /\ pc = "returned" =>
                IF stop_result.status = "continue"
                THEN Len(sleep_log) = model_calls
                ELSE Len(sleep_log) + 1 = model_calls

\* With 30 requests per minute, a call returned an error result in its
\* second iteration: it slept 2 seconds once, after the first iteration.
C15_Witness ==
    /\ requests_per_minute_limit = Some(30)
    /\ pc = "returned"
    /\ model_calls = 2
    /\ stop_result.status = "error"
    /\ sleep_log = <<2000>>

\* What the k-th call of the wrapped function did.
CallOutcome(k) == CallWrapped(wrapped.func, call_log[k])

\* The k-th call raised an exception of the retryable set.
RaisedRetryable(k) ==
    /\ CallOutcome(k).kind = "raise"
    /\ \/ "Exception" \in wrapped.retryable_exceptions
       \/ CallOutcome(k).e.class \in wrapped.retryable_exceptions

\* C16: with max_retries = M >= 1 the wrapped function is called at most M
\* times; every call but the last raised a retryable exception, so the first
\* successful call ends the wrapper, which returns that call's result; the
\* wrapper has slept once after each failed attempt that another attempt
\* follows and not after the last one; and when all M attempts raised
\* retryable exceptions the wrapper raises the exception of the last attempt.
C16_BoundedAttempts ==
    wrapped.max_retries >= 1 =>
        /\ Len(call_log) <= wrapped.max_retries
        /\ \A k \in 1..Len(call_log) : k < Len(call_log) => RaisedRetryable(k)
        /\ retry_pc \in {"idle", "attempt"} =>
               /\ Len(backoff_sleeps) = Len(call_log)
               /\ Len(call_log) < wrapped.max_retries
        /\ retry_pc \in {"returned", "raised"} =>
               Len(backoff_sleeps) + 1 = Len(call_log)
        /\ retry_pc = "returned" =>
               /\ CallOutcome(Len(call_log)).kind = "return"
               /\ retry_outcome = CallOutcome(Len(call_log))
        /\ (/\ retry_pc = "raised"
            /\ RaisedRetryable(Len(call_log))) =>
               /\ Len(call_log) = wrapped.max_retries
               /\ retry_outcome =
                      [kind |-> "raise", e |-> CallOutcome(Len(call_log)).e]

\* Four attempts, all failing, the last with an exception other than the
\* first: three sleeps, and the last exception is what the wrapper raises.
C16_Witness ==
    /\ wrapped.func = "func"
    /\ wrapped.max_retries = 4
    /\ retry_pc = "raised"
    /\ Len(call_log) = 4
    /\ Len(backoff_sleeps) = 3
    /\ call_log[1].e.class = "ConnectionError"
    /\ call_log[4].e.class = "TimeoutError"
    /\ retry_outcome.e.class = "TimeoutError"

\* C17: a call of the wrapped function that raises an exception outside the
\* retryable set is the wrapper's last call: that exception is what the
\* wrapper raises, no sleep follows it and no further attempt is made.
C17_NonRetryablePropagates ==
    \A k \in 1..Len(call_log) :
        (CallOutcome(k).kind = "raise" /\ ~RaisedRetryable(k)) =>
            /\ k = Len(call_log)
            /\ retry_pc = "raised"
            /\ retry_outcome = CallOutcome(k)
            /\ Len(backoff_sleeps) + 1 = k

\* The first call raised ValueError, which is not retryable, although three
\* more attempts were allowed: one call, no sleep.
C17_Witness ==
    /\ wrapped.max_retries = 4
    /\ retry_pc = "raised"
    /\ Len(call_log) = 1
    /\ call_log[1].e.class = "ValueError"
    /\ retry_outcome.e.class = "ValueError"
    /\ backoff_sleeps = <<>>

\* The transport's first reply to BedrockModel._invoke was the
\* ValidationException saying the input is too long.
TooLongReported ==
    /\ wrapped.func = "_invoke"
    /\ Len(call_log) >= 1
    /\ call_log[1].kind = "raise"
    /\ call_log[1].e.class = "ClientError"
    /\ call_log[1].e.code = "ValidationException"
    /\ Contains(call_log[1].e.message, "Input is too long")

\* C18: when the transport reports a ValidationException saying the input is
\* too long, the adapter raises ContextWindowExceeded after that single
\* transport call, without a backoff sleep or a retry.
C18_TooLongNotRetried ==
    TooLongReported =>
        /\ Len(call_log) = 1
        /\ backoff_sleeps = <<>>
        /\ retry_pc = "raised"
        /\ retry_outcome = [kind |-> "raise", e |-> [class |-> "ContextWindowExceeded"]]

\* Position of the last save under the id among the first n calls made on
\* the store, 0 if there is none.
LastSave(id, n) ==
    IF \E k \in 1..n : store_log[k].op = "save" /\ store_log[k].session_id = id
    THEN CHOOSE k \in 1..n :
             /\ store_log[k].op = "save" /\ store_log[k].session_id = id
             /\ \A j \in (k + 1)..n :
                    ~(store_log[j].op = "save" /\ store_log[j].session_id = id)
    ELSE 0

\* C19: in any sequence of save_memory/load_memory calls on one store, a
\* load of an id returns the memory of the latest earlier save under that id
\* and raises KeyError exactly when no earlier save was made under it; the
\* index holds the latest saved memory of every id saved and nothing else,
\* failed loads having created no entry.
C19_LoadLatestSaved ==
    /\ \A n \in 1..Len(store_log) :
           store_log[n].op = "load" =>
               LET k == LastSave(store_log[n].session_id, n - 1)
               IN  IF k = 0
                   THEN store_log[n].result = [raised |-> "KeyError"]
                   ELSE /\ store_log[n].result.raised = "none"
                        /\ store_log[n].result.memory = store_log[k].memory
    /\ DOMAIN memory_index =
           {id \in SessionIds : LastSave(id, Len(store_log)) # 0}
    /\ \A id \in DOMAIN memory_index :
           memory_index[id] = store_log[LastSave(id, Len(store_log))].memory

\* A load that failed, two saves under the same id, and a load that returned
\* the memory of the second save.
C19_Witness ==
    /\ Len(store_log) = 4
    /\ store_log[1].op = "load" /\ store_log[1].session_id = "test"
    /\ store_log[1].result.raised = "KeyError"
    /\ store_log[2].op = "save" /\ store_log[2].session_id = "test"
    /\ store_log[3].op = "save" /\ store_log[3].session_id = "test"
    /\ store_log[3].memory # store_log[2].memory
    /\ store_log[4].op = "load" /\ store_log[4].session_id = "test"
    /\ store_log[4].result.memory = store_log[3].memory
    /\ DOMAIN memory_index = {"test"}

\* Sum of the input or output token counts of a history, from its end.
RECURSIVE InputTokens(_)
InputTokens(history) ==
    IF history = <<>> THEN 0
    ELSE InputTokens(SubSeq(history, 1, Len(history) - 1))
         + history[Len(history)].input_tokens

RECURSIVE OutputTokens(_)
OutputTokens(history) ==
    IF history = <<>> THEN 0
    ELSE OutputTokens(SubSeq(history, 1, Len(history) - 1))
         + history[Len(history)].output_tokens

\* C20: get_cumulative_token_count returns, for a history of logs that carry
\* token counts, the sum of the logs' input tokens, the sum of their output
\* tokens and the sum of the two; and no total is smaller than the same
\* total of a shorter prefix of the history.
C20_CumulativeTokens ==
    "usage" \in DOMAIN token_count =>
        LET counted == SubSeq(invocation_history, 1, token_count.logs)
        IN  /\ token_count.usage.total_input_tokens = InputTokens(counted)
            /\ token_count.usage.total_output_tokens = OutputTokens(counted)
            /\ token_count.usage.total_tokens =
                   InputTokens(counted) + OutputTokens(counted)
            /\ \A k \in 0..token_count.logs :
                   LET shorter == SubSeq(counted, 1, k)
                   IN  /\ InputTokens(shorter) <= token_count.usage.total_input_tokens
                       /\ OutputTokens(shorter) <= token_count.usage.total_output_tokens
                       /\ InputTokens(shorter) + OutputTokens(shorter)
                              <= token_count.usage.total_tokens

\* Logs with (input, output) = (10, 5) and (20, 7) give 30, 12 and 42.
C20_Witness ==
    /\ Len(invocation_history) = 2
    /\ invocation_history[1].input_tokens = 10
    /\ invocation_history[1].output_tokens = 5
    /\ invocation_history[2].input_tokens = 20
    /\ invocation_history[2].output_tokens = 7
    /\ token_count.logs = 2
    /\ token_count.usage = [total_input_tokens |-> 30, total_output_tokens |-> 12,
                            total_tokens |-> 42]

\* Blocks of one message that carry the after_next_turn tag, nested ones of
\* tool results included.
RECURSIVE CountTagged(_)
CountTagged(content) ==
    IF content = <<>> THEN 0
    ELSE LET block == Head(content)
             nested == IF block.type = "tool_result"
                       THEN CountTagged(block.tool_result_content) ELSE 0
         IN  (IF IsAfterNextTurn(block) THEN 1 ELSE 0) + nested
             + CountTagged(Tail(content))

\* C21: the retention filter is idempotent: applied to its own output it
\* returns the same message list as the first application did.
C21_Idempotent ==
    Len(retention_passes) >= 2 => retention_passes[2] = retention_passes[1]

\* Two applications were made to a list from which the first removed a tagged
\* block nested in a tool result.
C21_Witness ==
    /\ Len(retention_passes) >= 2
    /\ retention_passes[1] # retention_input
    /\ \E i \in 1..Len(retention_input) :
         \E j \in 1..Len(retention_input[i].content) :
            LET block == retention_input[i].content[j]
            IN  /\ block.type = "tool_result"
                /\ ~IsAfterNextTurn(block)
                /\ CountTagged(block.tool_result_content) >= 2

\* C22: one application of the retention filter leaves the content of the
\* newest message as it was, tagged blocks included.
C22_NewestExempt ==
    (Len(retention_passes) >= 1 /\ retention_input # <<>>)
    => retention_passes[1][Len(retention_input)].content
           = retention_input[Len(retention_input)].content

LastOp == tool_ops[Len(tool_ops)]

\* The step is a call of add_tool_group.
IsAddToolGroup ==
    /\ Len(tool_ops') = Len(tool_ops) + 1
    /\ tool_ops'[Len(tool_ops')].op = "add_tool_group"

\* C23: add_tool_group on a group without tools raises and leaves the tool
\* list and the system message as they were; on a group with tools it appends
\* the group's tools to the tool list in the group's order, names that are
\* already registered included.
C23_AddToolGroup ==
    [][IsAddToolGroup =>
         LET call == tool_ops'[Len(tool_ops')]
         IN  IF call.tool_group.tools = <<>>
             THEN /\ call.raised = "Exception"
                  /\ tools' = tools
                  /\ system_message' = system_message
             ELSE /\ call.raised = "none"
                  /\ tools' = tools \o call.tool_group.tools]_vars

\* A group was added whose tool "calc" was registered before, and an empty
\* group was refused.
C23_Witness ==
    /\ \E i \in 1..Len(tool_ops) :
         /\ tool_ops[i].op = "add_tool_group"
         /\ tool_ops[i].raised = "Exception"
    /\ Len(tool_ops) >= 2
    /\ LastOp.op = "add_tool_group"
    /\ LastOp.raised = "none"
    /\ Len(SelectSeq(tools, LAMBDA tool : tool.name = "calc")) >= 3

\* The text blocks of a system message hold the given text somewhere.
MentionsText(message, text) ==
    \E k \in 1..Len(message) : Contains(message[k].text, text)

\* The group was added by the i-th operation and no clear_tools was called
\* between that and the j-th.
RegisteredAt(i, j) ==
    /\ tool_ops[i].op = "add_tool_group"
    /\ tool_ops[i].raised = "none"
    /\ \A k \in (i + 1)..(j - 1) : tool_ops[k].op # "clear_tools"

\* C29: every request built after add_tool_group(g), by a call without a
\* system_message argument, has g's instructions in its system message and
\* g's tools in its tool list.
C29_RequestCarriesGroup ==
    \A j \in 1..Len(tool_ops) :
        tool_ops[j].op = "request" =>
            \A i \in 1..(j - 1) :
                RegisteredAt(i, j) =>
                    LET g == tool_ops[i].tool_group
                        request == tool_ops[j].request
                    IN  /\ MentionsText(request.system_message, g.instructions)
                        /\ \A t \in 1..Len(g.tools) :
                             \E u \in 1..Len(request.tools) :
                                request.tools[u] = g.tools[t]

\* The tool-use blocks of the message whose name a registered tool has.
MatchedToolUses ==
    SelectSeq(ToolUses, LAMBDA block : FirstMatch(tools, block.tool_name) # 0)

\* C24: in ainvoke's tool dispatch of a message with two or more matched
\* tool-use blocks, whenever the result of a task is awaited the tasks of all
\* the matched blocks have been created.
C24_FanOutBeforeFanIn ==
    (pc = "gather" /\ Len(MatchedToolUses) >= 2)
    => Len(tasks) = Len(MatchedToolUses)

\* The result blocks invoke's dispatch builds for a content, in order.
RECURSIVE SyncResultBlocks(_)
SyncResultBlocks(content) ==
    IF content = <<>> THEN <<>>
    ELSE LET block == Head(content)
         IN  (IF block.type = "tool_use"
              THEN <<ToolResultContentBlock(
                       block.tool_use_id,
                       ToolResultContent(DispatchSync(tools, block).tool_response))>>
              ELSE <<>>)
             \o SyncResultBlocks(Tail(content))

\* C25: for the same model response and tool outcomes, no tool raising,
\* ainvoke's dispatch leaves in memory the tool-result message that invoke's
\* dispatch leaves, and the same handler result.
C25_SameAsSync ==
    (ToolUseDone("async")
     /\ \A k \in 1..Len(ToolUses) : ~Raises(ToolUses[k]))
    => /\ LastMessage = UserMessageOf(SyncResultBlocks(Content))
       /\ stop_result = [status |-> "continue"]

\* C26: invoke's dispatch of a message with tool-use blocks [t1..tN] invokes,
\* in block order and once per matched block, the first registered tool that
\* has the block's name, and appends a user message of exactly N result
\* blocks whose tool_use_ids are [t1..tN] in that order.
C26_SyncDispatch ==
    ToolUseDone("sync") =>
        /\ LastMessage.role = "user"
        /\ Len(LastMessage.content) = Len(ToolUses)
        /\ \A k \in 1..Len(ToolUses) :
               /\ LastMessage.content[k].type = "tool_result"
               /\ LastMessage.content[k].tool_use_id = ToolUses[k].tool_use_id
        /\ Len(dispatch_log) = Len(MatchedToolUses)
        /\ \A k \in 1..Len(dispatch_log) :
               /\ dispatch_log[k].tool_use_id = MatchedToolUses[k].tool_use_id
               /\ tools[dispatch_log[k].tool].name = MatchedToolUses[k].tool_name
               /\ \A j \in 1..(dispatch_log[k].tool - 1) :
                      tools[j].name # MatchedToolUses[k].tool_name

\* invoke dispatched two tool uses, one of them naming "calc", a name two
\* registered tools share.
C26_Witness ==
    /\ ToolUseDone("sync")
    /\ Len(ToolUses) >= 2
    /\ Len(dispatch_log) >= 2
    /\ \E k \in 1..Len(dispatch_log) :
         Len(SelectSeq(tools, LAMBDA tool :
                 tool.name = tools[dispatch_log[k].tool].name)) >= 2

\* Every tool use of the message has a result block in the content.
AllAnswered(content) ==
    \A k \in 1..Len(ToolUses) :
        \E p \in 1..Len(content) :
            /\ content[p].type = "tool_result"
            /\ content[p].tool_use_id = ToolUses[k].tool_use_id

\* C27 as stated: every TOOL_USE iteration, however it ends, has appended its
\* tool-result message right after the assistant message.
C27_EveryIterationAppends ==
    (model_response.stop_reason = "tool_use" /\ pc \in {"tail", "raised"}) =>
        /\ Len(memory) >= 2
        /\ memory[Len(memory) - 1] = model_response.assistant_message
        /\ LastMessage.role = "user"

\* C27, amended: while the tool uses of an assistant message are dispatched
\* nothing is appended to memory, and nothing is appended by a dispatch that
\* a raising tool task ends; when a dispatch runs to its end, the message
\* right after the assistant message is the one tool-result message, it
\* answers every tool use of the iteration, and every matched tool has been
\* invoked.
C27_OneResultMessage ==
    model_response.stop_reason = "tool_use" =>
        /\ (pc \in {"handle", "gather"} \/ (pc = "raised" /\ exception = "ToolError"))
               => LastMessage = model_response.assistant_message
        /\ pc = "tail" =>
               /\ Len(memory) >= 2
               /\ memory[Len(memory) - 1] = model_response.assistant_message
               /\ LastMessage.role = "user"
               /\ AllAnswered(LastMessage.content)
               /\ \A k \in 1..Len(MatchedToolUses) :
                      \E d \in 1..Len(dispatch_log) :
                          dispatch_log[d].tool_use_id
                              = MatchedToolUses[k].tool_use_id

\* A dispatch of three tool uses ended, two of them invoked, and its
\* tool-result message follows the assistant message.
C27_Witness ==
    /\ pc = "tail"
    /\ model_response.stop_reason = "tool_use"
    /\ Len(ToolUses) >= 2
    /\ Len(dispatch_log) >= 2
    /\ Len(LastMessage.content) >= 2

\* min(max_delay, base_delay * 2^k) for the wrapped function's arguments.
CappedDelay(k) ==
    IF wrapped.base_delay * (2 ^ k) <= wrapped.max_delay
    THEN wrapped.base_delay * (2 ^ k)
    ELSE wrapped.max_delay

\* C28: the sleep after the failed attempt with index k is at least
\* min(max_delay, base_delay * 2^k) and at most that delay times
\* (1 + jitter_factor); the delay never exceeds max_delay and does not
\* decrease from one attempt to the next.
C28_BackoffDelay ==
    \A k \in 0..(Len(backoff_sleeps) - 1) :
        /\ CappedDelay(k) <= backoff_sleeps[k + 1]
        /\ backoff_sleeps[k + 1] * 100
               <= CappedDelay(k) * (100 + wrapped.jitter_factor)
        /\ CappedDelay(k) <= wrapped.max_delay
        /\ k > 0 => CappedDelay(k - 1) <= CappedDelay(k)

\* Three sleeps were made, the third at the cap, the second with jitter.
C28_Witness ==
    /\ Len(backoff_sleeps) >= 3
    /\ wrapped.base_delay * 4 > wrapped.max_delay
    /\ backoff_sleeps[3] = wrapped.max_delay
    /\ backoff_sleeps[2] > wrapped.base_delay * 2

\* C30: the update callback is invoked at most once per iteration, after
\* the assistant message of the iteration is appended, with the update
\* message extracted from that message, and never with a null value.
C30_CallbackWithUpdateOnly ==
    /\ Len(callback_log) <= model_calls
    /\ \A k \in 1..Len(callback_log) : callback_log[k] # None

\* C32: a call of the retention filter leaves the list it was given, with
\* its messages, their content blocks and the nested contents of their tool
\* results, as it was.
C32_InputUnchanged ==
    [][/\ retention_input' = retention_input
       /\ \A k \in 1..Len(retention_passes) :
              retention_passes'[k] = retention_passes[k]]_vars

\* The filter was applied to a list in which a kept tool result holds a
\* tagged block, and returned a different list.
C32_Witness ==
    /\ Len(retention_passes) >= 1
    /\ retention_passes[1] # retention_input
    /\ \E i \in 1..Len(retention_input) :
         \E j \in 1..Len(retention_input[i].content) :
            LET block == retention_input[i].content[j]
            IN  /\ block.type = "tool_result"
                /\ ~IsAfterNextTurn(block)
                /\ \E n \in 1..Len(block.tool_result_content) :
                       IsAfterNextTurn(block.tool_result_content[n])

\* Position of the last set_messages or clear before the k-th call, or 0.
LastReset(k) ==
    LET resets == {j \in 1..(k - 1) :
                       memory_ops[j].op \in {"set_messages", "clear"}}
    IN  IF resets = {} THEN 0
        ELSE CHOOSE j \in resets : \A i \in resets : i <= j

\* The messages appended by the calls numbered from..to, in order.
RECURSIVE AppendedBetween(_, _)
AppendedBetween(from, to) ==
    IF from > to THEN <<>>
    ELSE (IF memory_ops[from].op = "append"
          THEN <<memory_ops[from].message>> ELSE <<>>)
         \o AppendedBetween(from + 1, to)

\* What the k-th call is to see: the list of the last set_messages (none
\* after a clear or at creation), then the messages appended since.
ExpectedMessages(k) ==
    LET r == LastReset(k)
    IN  (IF r # 0 /\ memory_ops[r].op = "set_messages"
         THEN memory_ops[r].messages ELSE <<>>)
        \o AppendedBetween(r + 1, k - 1)

\* C35: get_messages returns the list given to the last set_messages (the
\* empty list after a clear or at creation) followed by the messages appended
\* since, in order; get_converse_messages returns their role and formatted
\* content, message by message.
C35_MemoryContents ==
    \A k \in 1..Len(memory_ops) :
        /\ memory_ops[k].op = "get_messages"
               => memory_ops[k].result = ExpectedMessages(k)
        /\ memory_ops[k].op = "get_converse_messages"
               => LET expected == ExpectedMessages(k)
                      result == memory_ops[k].result
                  IN  /\ Len(result) = Len(expected)
                      /\ \A i \in 1..Len(expected) :
                             /\ result[i].role = expected[i].role
                             /\ Len(result[i].content) = Len(expected[i].content)
                             /\ \A j \in 1..Len(expected[i].content) :
                                    result[i].content[j]
                                        = [text |-> expected[i].content[j].text]

\* get_messages was called after an append that followed a set_messages of a
\* non-empty list which had replaced earlier messages.
C35_Witness ==
    /\ Len(memory_ops) >= 4
    /\ memory_ops[1].op = "append"
    /\ memory_ops[2].op = "set_messages"
    /\ memory_ops[2].messages # <<>>
    /\ memory_ops[3].op = "append"
    /\ memory_ops[4].op = "get_messages"

\* C34: constructing an agent whose session id is not in the store raises
\* nothing, leaves the agent with an empty memory and the store without a new
\* entry; an entry appears only in a step that appends a message; an agent
\* whose session id is in the store holds the stored memory.
C34_Construction ==
    [][/\ Len(agents') > Len(agents)
           => LET agent == agents'[Len(agents')]
              IN  /\ agent.raised = "none"
                  /\ store_index' = store_index
                  /\ IF IsSet(agent.session_id)
                        /\ agent.session_id[1] \in DOMAIN store_index
                     THEN agent.memory = store_index[agent.session_id[1]]
                     ELSE heap'[agent.memory] = <<>>
       /\ DOMAIN store_index' # DOMAIN store_index
           => \E o \in 1..Len(heap) : Len(heap'[o]) > Len(heap[o])]_vars

\* An agent was constructed on a session id the store lacked and took a turn,
\* and a later agent constructed on that session id holds its memory.
C34_Witness ==
    \E a, c \in 1..Len(agents) :
        /\ a < c
        /\ agents[a].session_id = Some("session")
        /\ agents[a].memory = a
        /\ heap[a] # <<>>
        /\ agents[c].session_id = Some("session")
        /\ agents[c].memory = a

\* C38: two agents constructed without a session_id have different session
\* ids, and on one store no message of a turn of one of them is in a model
\* request of the other.
C38_DistinctSessions ==
    \A a, b \in 1..Len(agents) :
        (a # b /\ agents[a].argument = <<>> /\ agents[b].argument = <<>>)
            => /\ agents[a].session_id # agents[b].session_id
               /\ \A r \in 1..Len(request_log) :
                      request_log[r].agent = a
                          => \A i \in 1..Len(request_log[r].messages) :
                                 request_log[r].messages[i]
                                     \notin {TurnMessage(b), TurnReply(b)}

\* C33: while the invoke of a tool with the default ainvoke runs, the event
\* loop can still start or resume every other task that waits for the thread.
C33_DefaultAInvokeYields ==
    \A k \in 1..Len(loop_tasks) :
        loop_tasks[k] = [kind |-> "tool", state |-> "invoking"]
            => \A j \in 1..Len(loop_tasks) :
                   loop_tasks[j].state \in {"created", "ready"} => Runnable(j)

\* A call is under way.
InTurn == pc \notin {"idle", "returned", "raised"}

\* C36: a call with max_iterations = N never issues more than N model calls,
\* and every call that is under way returns or raises.
C36_BoundedModelCalls ==
    /\ [](model_calls <= max_iterations)
    /\ [](InTurn => <>(pc \in {"returned", "raised"}))

\* A call that made as many model calls as its cap allows has returned.
C36_Witness ==
    /\ pc = "returned"
    /\ max_iterations = MaxIter
    /\ model_calls = max_iterations
    /\ current_iteration = max_iterations

\* C37: once the loop has appended a message, load_memory(session_id) on the
\* agent's store returns a memory with the messages of the agent's memory,
\* also after a call ended at the cap or by an exception.
C37_StoreFollowsMemory ==
    memory # <<>> =>
        LET loaded == load_memory(memory_index, SessionId)
        IN  /\ loaded.raised = "none"
            /\ loaded.memory = memory

\* A call was abandoned by an exception after a user message, an assistant
\* message and more had been appended.
C37_Witness ==
    /\ pc = "raised"
    /\ exception # "none"
    /\ Len(memory) >= 3
    /\ load_memory(memory_index, SessionId).memory = memory

\* The k-th message of memory has each of its tool-use blocks answered by a
\* tool-result block with the same id in the message that follows it.
Resolved(k) ==
    \A b \in 1..Len(memory[k].content) :
        memory[k].content[b].type = "tool_use"
            => /\ k < Len(memory)
               /\ memory[k + 1].role = "user"
               /\ \E p \in 1..Len(memory[k + 1].content) :
                      /\ memory[k + 1].content[p].type = "tool_result"
                      /\ memory[k + 1].content[p].tool_use_id
                             = memory[k].content[b].tool_use_id

\* C39: whenever the loop is about to build a model request, in any sequence
\* of calls on the agent, every tool use of an assistant message of memory is
\* answered in the user message right after it.
C39_NoUnresolvedToolUse ==
    (pc = "loop" /\ current_iteration < max_iterations) =>
        \A k \in 1..Len(memory) : memory[k].role = "assistant" => Resolved(k)

\* The k-th transport call of _invoke raised a ValidationException that does
\* not say the input is too long.
OtherValidation(k) ==
    /\ wrapped.func = "_invoke"
    /\ call_log[k].kind = "raise"
    /\ call_log[k].e.class = "ClientError"
    /\ call_log[k].e.code = "ValidationException"
    /\ ~Contains(call_log[k].e.message, "Input is too long")

\* C40: when the last transport call of a finished call of _invoke raised a
\* ValidationException that does not report an over-long input, the caller
\* gets that ClientError.
C40_ValidationSurfaced ==
    (/\ retry_pc \in {"returned", "raised"}
     /\ call_log # <<>>
     /\ OtherValidation(Len(call_log)))
    => /\ retry_pc = "raised"
       /\ retry_outcome = [kind |-> "raise", e |-> call_log[Len(call_log)].e]

\* The messages hold the screenshot taken in the iteration of the r-th
\* request.
HoldScreenshot(messages, r) ==
    \E m \in 1..Len(messages) :
        \E b \in 1..Len(messages[m].content) :
            /\ messages[m].content[b].type = "image"
            /\ messages[m].content[b].filename.timestamp = r

\* The model calls of the requests numbered from..to all raised.
AllRaised(from, to) ==
    \A k \in from..to : request_log[k].outcome = "raised"

\* Every tagged text block of the messages comes right after a screenshot in
\* the same message.
MousePositionFollowsScreenshot(messages) ==
    \A m \in 1..Len(messages) :
        \A b \in 1..Len(messages[m].content) :
            (messages[m].content[b].type = "text"
             /\ IsAfterNextTurn(messages[m].content[b]))
                => /\ b > 1
                   /\ messages[m].content[b - 1].type = "image"

\* C31 as stated: the blocks appended in the iteration of the r-th request are
\* in the request that follows it and in no other request.
C31_ExactlyOneRound ==
    \A q, r \in 1..Len(request_log) :
        HoldScreenshot(request_log[q].messages, r) => q = r + 1

\* C31: the blocks appended by _final_processing in the iteration of the r-th
\* request are in no request up to the r-th; each request that is built
\* takes all the blocks memory holds; and a request later than the r-th, or
\* memory, holds them only if no model call has returned since the r-th.
C31_UntilNextReturn ==
    /\ [](/\ \A q, r \in 1..Len(request_log) :
                 HoldScreenshot(request_log[q].messages, r)
                     => r < q /\ AllRaised(r + 1, q - 1)
          /\ \A r \in 1..Len(request_log) :
                 HoldScreenshot(memory, r) => AllRaised(r + 1, Len(request_log))
          /\ MousePositionFollowsScreenshot(memory)
          /\ \A q \in 1..Len(request_log) :
                 MousePositionFollowsScreenshot(request_log[q].messages))
    /\ [][Len(request_log') > Len(request_log)
              => \A r \in 1..Len(request_log) :
                     HoldScreenshot(memory, r)
                         => HoldScreenshot(
                                request_log'[Len(request_log')].messages, r)]_vars

\* The screenshot of the first iteration was in the second request, whose
\* model call returned, and a third request was built without it.
C31_Witness ==
    /\ Len(request_log) >= 3
    /\ HoldScreenshot(request_log[2].messages, 1)
    /\ request_log[2].outcome = "returned"
    /\ ~HoldScreenshot(request_log[3].messages, 1)
    /\ HoldScreenshot(request_log[3].messages, 2)

====
